---- MODULE Spec2Model ----
(***************************************************************************)
(* Galore: resampling, broadening and cross-section weighting of spectra.  *)
(*                                                                         *)
(* The model follows the current package (the version the tests and        *)
(* galore/cross_sections.py are written against: xy_to_1d with a spikes    *)
(* switch, fwhm-parametrised line shapes, process_pdos returning its       *)
(* result).                                                                *)
(*                                                                         *)
(* Numbers.  x-axis quantities (x, xmin, d, width, pad) are integers       *)
(* counting a fixed quantum of the axis.  Intensities are exact rationals  *)
(* <<n, m>> with m > 0 in lowest terms.  Lorentzian amplitudes are stored  *)
(* as multiples of 1/pi (pi is a common positive factor of every kernel    *)
(* entry, and convolution is linear in the kernel).                        *)
(***************************************************************************)
EXTENDS Integers, Sequences, FiniteSets, TLC

VARIABLES
    fn,     \* the function under execution
    pc,     \* its position
    arg,    \* its arguments
    ret,    \* what it returned or raised
    heap,   \* the array objects made so far, by address
    env,    \* the local variables of a pipeline driver
    calls   \* the stage calls a pipeline driver has made, in order

vars == <<fn, pc, arg, ret, heap, env, calls>>

(***************************************************************************)
(* Bounds of the model                                                     *)
(***************************************************************************)
MaxLen == 3
MaxVal == 1
MaxWidth == 2
MaxPad == 5
MaxStep == 3
MaxGaussExp == 16
MaxX == 4
MaxPts == 2
MaxGrid == 3

(***************************************************************************)
(* Exact rational arithmetic                                               *)
(***************************************************************************)
Abs(a) == IF a < 0 THEN -a ELSE a

RECURSIVE GCD(_, _)
GCD(a, b) == IF b = 0 THEN a ELSE GCD(b, a % b)

Rat(n, m) ==
    LET g == GCD(Abs(n), m)
    IN  IF n = 0 THEN <<0, 1>> ELSE <<n \div g, m \div g>>

RZero == <<0, 1>>
RInt(n) == <<n, 1>>
RAdd(a, b) ==
    LET l == (a[2] \div GCD(a[2], b[2])) * b[2]
    IN  Rat(a[1] * (l \div a[2]) + b[1] * (l \div b[2]), l)
RMul(a, b) == Rat(a[1] * b[1], a[2] * b[2])
RLess(a, b) == a[1] * b[2] < b[1] * a[2]

RECURSIVE Pow2(_)
Pow2(e) == IF e = 0 THEN 1 ELSE 2 * Pow2(e - 1)

\* ceil(a / b) and int(a / b) for b > 0, a >= 0
CeilDiv(a, b) == (a + b - 1) \div b
TruncDiv(a, b) == IF a >= 0 THEN a \div b ELSE -((-a) \div b)

Value(v) == [kind |-> "value", val |-> v]
Raise(e) == [kind |-> "raise", exc |-> e]
RaiseMsg(e, msg) == [kind |-> "raise", exc |-> e, msg |-> msg]
None == [kind |-> "none"]

\* the bug of taking the width as the half width at half maximum:
\* fwhm / (pi * ((f - f0)**2 + fwhm**2))
lorentzian_hwhm(f, f0, fwhm) ==
    Rat(fwhm, (f - f0) * (f - f0) + fwhm * fwhm)

(***************************************************************************)
(* Line shapes                                                             *)
(***************************************************************************)
\* 0.5 * fwhm / (pi * ((f - f0)**2 + (0.5 * fwhm)**2)), times pi
lorentzian(f, f0, fwhm) ==
    Rat(2 * fwhm, 4 * (f - f0) * (f - f0) + fwhm * fwhm)

\* c = fwhm / (2 sqrt(2 ln 2)); exp(-(f - f0)^2 / (2 c^2))
\*   = exp(-ln 2 * 4 (f - f0)^2 / fwhm^2) = 2 ^ -(4 (f - f0)^2 / fwhm^2).
\* The exponent is a whole number when fwhm divides 2 (f - f0); amplitudes
\* below 2 ^ -MaxGaussExp underflow to 0.
gaussian(f, f0, fwhm) ==
    LET e == (4 * (f - f0) * (f - f0)) \div (fwhm * fwhm)
    IN  IF e > MaxGaussExp THEN RZero ELSE Rat(1, Pow2(e))

GaussExact(width, pad, d) ==
    /\ (2 * d) % width = 0
    /\ (2 * pad) % width = 0

(***************************************************************************)
(* broaden                                                                 *)
(***************************************************************************)
\* str.lower() on the distribution names the model draws
Lower(s) ==
    CASE s = "Lorentzian" -> "lorentzian"
      [] s = "GAUSS" -> "gauss"
      [] OTHER -> s

\* len(np.arange(-pad, pad, d))
arange_len(start, stop, d) ==
    IF stop > start THEN CeilDiv(stop - start, d) ELSE 0

\* the bug of an else branch that builds a kernel for any other name
dist_known_any(dist) == TRUE

\* the if / elif on dist.lower() finds a line shape; the else branch raises
dist_known(dist) ==
    Lower(dist) \in {"lorentz", "lorentzian"} \/ Lower(dist) \in {"gauss", "gaussian"}

\* pad = width * 20 when pad is not given (False / 0)
broaden_pad(width, pad) == IF pad = 0 THEN width * 20 ELSE pad

\* entry k (0-based) of the kernel: the line shape on np.arange(-pad, pad, d)
broadening(dist, width, pad, d, k) ==
    IF Lower(dist) \in {"lorentz", "lorentzian"}
    THEN lorentzian(-pad + k * d, 0, width)
    ELSE gaussian(-pad + k * d, 0, width)

\* a rounding slip: pad / d rounded up instead of truncated
pad_points_ceil(pad, d) == CeilDiv(pad, d)

\* int(pad / d)
pad_points(pad, d) == TruncDiv(pad, d)

\* entry n (0-based) of np.convolve(broadening, data), the full convolution
RECURSIVE convolve_sum(_, _, _, _, _, _, _, _)
convolve_sum(data, dist, width, pad, d, klen, n, j) ==
    IF j > Len(data) THEN RZero
    ELSE LET k == n - (j - 1)
             term == IF k >= 0 /\ k < klen
                     THEN RMul(data[j], broadening(dist, width, pad, d, k))
                     ELSE RZero
         IN  RAdd(term, convolve_sum(data, dist, width, pad, d, klen, n, j + 1))

\* broadened_data[pad_points:len(data) + pad_points] of an array of length
\* full: Python clamps both ends of the slice to the array
slice_len(full, lo, hi) ==
    LET l == IF lo > full THEN full ELSE lo
        h == IF hi > full THEN full ELSE hi
    IN  IF h > l THEN h - l ELSE 0

broaden(data, dist, width, pad0, d) ==
    LET pad == broaden_pad(width, pad0)
        klen == arange_len(-pad, pad, d)
        pp == pad_points(pad, d)
        full == Len(data) + klen - 1
        n == slice_len(full, pp, Len(data) + pp)
    IN  IF ~dist_known(dist)
        THEN Raise("Exception")
        ELSE IF klen = 0 \/ Len(data) = 0
        THEN Raise("ValueError")
        ELSE Value([i \in 1..n |->
                 convolve_sum(data, dist, width, pad, d, klen, pp + i - 1, 1)])

(***************************************************************************)
(* xy_to_1d                                                                *)
(*                                                                         *)
(* xy is a sequence of points <<x, y>>, x a whole number of quanta and y a *)
(* rational; x_values is the mesh, a sequence of whole numbers.            *)
(***************************************************************************)
\* np.arange(start, stop, d) for d > 0
arange(start, stop, d) ==
    [i \in 1..arange_len(start, stop, d) |-> start + (i - 1) * d]

\* a.searchsorted(v), side 'left', for v = v2 / 2: the number of entries of
\* the sorted array a that are < v
searchsorted2(a, v2) == Cardinality({i \in DOMAIN a : 2 * a[i] < v2})

\* the bug of looking up x itself: no shift by half a step
spike_location_noshift(x_values, x, d) == searchsorted2(x_values, 2 * x)

\* x_values.searchsorted(x - 0.5 * d), a 0-based position in 0..len(x_values)
spike_location(x_values, x, d) == searchsorted2(x_values, 2 * x - d)

\* the bug of dropping only the points beyond the last mesh value
spike_dropped_last_only(location, n_x_values) == location = n_x_values

\* if location == 0 or location == n_x_values: pass
spike_dropped(location, n_x_values) == location = 0 \/ location = n_x_values

\* the bug of a cell that keeps the last value only
spike_overwrite(cell, value) == value

\* the bug of a value counted twice
spike_add_twice(cell, value) == RAdd(cell, RAdd(value, value))

\* spikes[location] += value
spike_add(cell, value) == RAdd(cell, value)

\* for location, value in zip(spike_locations, y): the loop from point k on
RECURSIVE spikes_loop(_, _, _, _, _)
spikes_loop(xy, x_values, d, spikes, k) ==
    IF k > Len(xy) THEN spikes
    ELSE LET location == spike_location(x_values, xy[k][1], d)
         IN  spikes_loop(xy, x_values, d,
                 IF spike_dropped(location, Len(x_values))
                 THEN spikes
                 ELSE [spikes EXCEPT ![location + 1] = spike_add(@, xy[k][2])],
                 k + 1)

\* the bug of no sort at all: every point goes to the back
insert_at_back(sorted, p) == Append(sorted, p)

\* np.argsort(x, kind="mergesort") applied to the points: a stable sort by x
RECURSIVE insert_sorted(_, _)
insert_sorted(sorted, p) ==
    IF sorted = <<>> THEN <<p>>
    ELSE IF sorted[Len(sorted)][1] <= p[1] THEN Append(sorted, p)
    ELSE Append(insert_sorted(SubSeq(sorted, 1, Len(sorted) - 1), p),
                sorted[Len(sorted)])

RECURSIVE argsort_from(_, _, _)
argsort_from(xy, sorted, k) ==
    IF k > Len(xy) THEN sorted
    ELSE argsort_from(xy, insert_sorted(sorted, xy[k]), k + 1)

\* interp1d built with assume_sorted=True: the points are used as given
interp_points_unsorted(xy) == xy

\* the points interp1d keeps: assume_sorted=False sorts them by x
interp_points(xy) == argsort_from(xy, <<>>, 1)

Clip(v, lo, hi) == IF v < lo THEN lo ELSE IF v > hi THEN hi ELSE v

\* interp1d(..., bounds_error=False, fill_value=0) evaluated at x_new, on the
\* sorted points sx: slope * (x_new - x_lo) + y_lo between the neighbours
\* found by searchsorted and clipped to 1..len(x)-1; fill_value outside
interp_at(sx, x_new) ==
    LET n == Len(sx)
        idx == Clip(Cardinality({i \in 1..n : sx[i][1] < x_new}), 1, n - 1)
        lo == sx[idx]
        hi == sx[idx + 1]
        rise == RAdd(hi[2], RMul(RInt(-1), lo[2]))
        slope == Rat(rise[1], rise[2] * (hi[1] - lo[1]))
    IN  IF x_new < sx[1][1] \/ x_new > sx[n][1]
        THEN RZero
        ELSE RAdd(RMul(slope, RInt(x_new - lo[1])), lo[2])

xy_to_1d(xy, x_values, spikes) ==
    LET n_x_values == Len(x_values)
    IN  IF n_x_values < 2
        THEN Raise("IndexError")
        ELSE LET d == x_values[2] - x_values[1]
             IN  IF spikes
                 THEN Value(spikes_loop(xy, x_values, d,
                                        [i \in 1..n_x_values |-> RZero], 1))
                 ELSE IF Len(xy) < 2
                 THEN Raise("ValueError")
                 ELSE LET sx == interp_points(xy)
                      IN  Value([i \in 1..n_x_values |->
                                    interp_at(sx, x_values[i])])

(***************************************************************************)
(* apply_orbital_weights                                                   *)
(*                                                                         *)
(* An OrderedDict is a sequence of <<key, value>> pairs with distinct      *)
(* keys, in insertion order.  A plain dict that is only looked up is a     *)
(* function on its keys.  cross_sections is [type, items]; a weight of     *)
(* None is CsNone.                                                         *)
(***************************************************************************)
CsNone == <<0, 0>>

od_keys(od) == {od[i][1] : i \in DOMAIN od}

\* the bug of a mapping that does not keep insertion order: a new key goes
\* to the front
od_update_front(od, key, value) ==
    IF key \in od_keys(od)
    THEN [i \in DOMAIN od |-> IF od[i][1] = key THEN <<key, value>> ELSE od[i]]
    ELSE <<<<key, value>>>> \o od

\* od.update({key: value}): replaces the value in place, or appends the key
od_update(od, key, value) ==
    IF key \in od_keys(od)
    THEN [i \in DOMAIN od |-> IF od[i][1] = key THEN <<key, value>> ELSE od[i]]
    ELSE Append(od, <<key, value>>)

od_get(od, key) == od[CHOOSE i \in DOMAIN od : od[i][1] = key][2]

\* the bug of weighting only the first sample of the array
array_times_first(data, cs) ==
    [i \in DOMAIN data |-> IF i = 1 THEN RMul(data[i], cs) ELSE data[i]]

\* data * cs on an array
array_times(data, cs) == [i \in DOMAIN data |-> RMul(data[i], cs)]

\* the bug of weighting an orbital that has no cross-section by 1
orbital_cs_default(el_cs, orbital) ==
    IF orbital \in DOMAIN el_cs THEN [cs |-> el_cs[orbital], warn |-> FALSE]
    ELSE [cs |-> RInt(1), warn |-> TRUE]

\* try: cs = cross_sections[el][orbital]
\* except KeyError: logging.warning(...); cs = None
orbital_cs(el_cs, orbital) ==
    IF orbital \in DOMAIN el_cs THEN [cs |-> el_cs[orbital], warn |-> FALSE]
    ELSE [cs |-> CsNone, warn |-> TRUE]

\* the bug of keeping an orbital with a null weight, as zeros
weigh_orbital_zero(weighted_orbitals, orbital, data, cs) ==
    IF cs = CsNone
    THEN od_update(weighted_orbitals, orbital, array_times(data, RZero))
    ELSE od_update(weighted_orbitals, orbital, array_times(data, cs))

\* if cs is None: pass
\* else: weighted_orbitals.update({orbital: data * cs})
weigh_orbital(weighted_orbitals, orbital, data, cs) ==
    IF cs = CsNone
    THEN weighted_orbitals
    ELSE od_update(weighted_orbitals, orbital, array_times(data, cs))

\* for orbital, data in orbitals.items(): the loop from entry k on
RECURSIVE weight_orbitals(_, _, _, _, _, _)
weight_orbitals(el, orbitals, el_cs, k, weighted_orbitals, warnings) ==
    IF k > Len(orbitals)
    THEN [orbitals |-> weighted_orbitals, warnings |-> warnings]
    ELSE LET orbital == orbitals[k][1]
             data == orbitals[k][2]
             looked == orbital_cs(el_cs, orbital)
         IN  IF orbital = "energy"
             THEN weight_orbitals(el, orbitals, el_cs, k + 1,
                      od_update(weighted_orbitals, "energy", data), warnings)
             ELSE weight_orbitals(el, orbitals, el_cs, k + 1,
                      weigh_orbital(weighted_orbitals, orbital, data, looked.cs),
                      IF looked.warn
                      THEN Append(warnings, <<el, orbital>>)
                      ELSE warnings)

\* the bug of reading cross_sections.get(el, {}): no error for a missing element
getitem_element_default(cross_sections, el) ==
    IF el \in DOMAIN cross_sections.items
    THEN Value(cross_sections.items[el])
    ELSE Value(<<>>)

\* cross_sections[el]
getitem_element(cross_sections, el) ==
    IF el \in DOMAIN cross_sections.items
    THEN Value(cross_sections.items[el])
    ELSE Raise("KeyError")

\* for el, orbitals in pdos_data.items(): the loop from entry e on
RECURSIVE weight_elements(_, _, _, _, _)
weight_elements(pdos_data, cross_sections, e, weighted_pdos_data, warnings) ==
    IF e > Len(pdos_data)
    THEN [kind |-> "value", val |-> weighted_pdos_data, warnings |-> warnings]
    ELSE LET el == pdos_data[e][1]
             orbitals == pdos_data[e][2]
             el_cs == getitem_element(cross_sections, el)
         IN  IF el_cs.kind = "raise"
             THEN el_cs
             ELSE LET w == IF "warning" \in DOMAIN el_cs.val
                           THEN Append(warnings, <<el, "warning">>)
                           ELSE warnings
                      r == weight_orbitals(el, orbitals, el_cs.val, 1, <<>>, w)
                  IN  weight_elements(pdos_data, cross_sections, e + 1,
                          od_update(weighted_pdos_data, el, r.orbitals),
                          r.warnings)

apply_orbital_weights(pdos_data, cross_sections) ==
    IF cross_sections.type # "dict"
    THEN Raise("TypeError")
    ELSE weight_elements(pdos_data, cross_sections, 1, <<>>, <<>>)

(***************************************************************************)
(* The pipeline drivers: shared pieces                                     *)
(*                                                                         *)
(* An optional argument is <<>> for None and <<v>> for the value v.  An    *)
(* array object lives in heap under its address; a local variable that     *)
(* names an array holds the address.                                       *)
(***************************************************************************)
NoneArg == <<>>
Some(v) == <<v>>

\* the bug of testing the width against None only
TruthyNotNone(a) == a # NoneArg

\* `if lorentzian:` / `if gaussian:`: None, 0 and False are all false
Truthy(a) == a # NoneArg /\ a[1] # 0

RECURSIVE SeqMin(_)
SeqMin(xs) ==
    IF Len(xs) = 1 THEN xs[1]
    ELSE LET m == SeqMin(Tail(xs)) IN IF xs[1] < m THEN xs[1] ELSE m

RECURSIVE SeqMax(_)
SeqMax(xs) ==
    IF Len(xs) = 1 THEN xs[1]
    ELSE LET m == SeqMax(Tail(xs)) IN IF xs[1] > m THEN xs[1] ELSE m

\* padding = 0.05 = 1 / PaddingInv
PaddingInv == 20

\* the bug of leaving out the padding
auto_limits_unpadded(data_1d) == <<SeqMin(data_1d), SeqMax(data_1d)>>

\* auto_limits(data_1d, padding=0.05); the data ranges the model draws are
\* multiples of PaddingInv, so the padded limits are whole numbers
auto_limits(data_1d) ==
    LET xmin == SeqMin(data_1d)
        xmax == SeqMax(data_1d)
        auto_xmax == xmax + (xmax - xmin) \div PaddingInv
        auto_xmin == xmin - (xmax - xmin) \div PaddingInv
    IN  <<auto_xmin, auto_xmax>>

\* the address a new array object gets
new_address(h) == Len(h) + 1

\* the bug of broadened_data = data_1d: no copy, the same object
array_copy_alias(h, address) == [heap |-> h, address |-> address]

\* a.copy(): a new object with the same values
array_copy(h, address) ==
    [heap |-> Append(h, h[address]), address |-> new_address(h)]

\* the statements of the broadening stage in the wrong order
next_stage_swapped(stage) ==
    CASE stage = "copy" -> "gaussian"
      [] stage = "gaussian" -> "lorentzian"
      [] OTHER -> "end"

\* the order of the statements of the broadening stage: the copy, then
\* `if lorentzian:`, then `if gaussian:`, then what follows the stage
next_stage(stage) ==
    CASE stage = "copy" -> "lorentzian"
      [] stage = "lorentzian" -> "gaussian"
      [] OTHER -> "end"

\* x[:, 0] of a two-column array
column_x(xy) == [i \in DOMAIN xy |-> xy[i][1]]

\* an orbital the reader has set to None; no data array equals it
NoneArray == <<CsNone>>

(***************************************************************************)
(* Inputs                                                                  *)
(***************************************************************************)
SeqsUpTo(S, n) == UNION {[1..k -> S] : k \in 0..n}

Samples == {RInt(v) : v \in 0..MaxVal}
DistNames ==
    {"lorentz", "lorentzian", "Lorentzian", "gauss", "gaussian", "GAUSS",
     "voigt", "delta"}

BroadenArgs ==
    {a \in [data : SeqsUpTo(Samples, MaxLen), dist : DistNames,
            width : 0..MaxWidth, pad : 0..MaxPad, d : 1..MaxStep] :
        /\ (a.width = 0 => a.pad = 0)
        /\ (Lower(a.dist) \in {"gauss", "gaussian"} /\ a.width > 0
              => GaussExact(a.width, broaden_pad(a.width, a.pad), a.d))}

Points == {<<x, y>> : x \in 0..MaxX, y \in Samples}

DistinctX(xy) == \A i, j \in DOMAIN xy : i # j => xy[i][1] # xy[j][1]

GridStarts == {1}
Grids == {arange(x0, x0 + n * d, d) : x0 \in GridStarts, d \in 1..MaxStep, n \in 0..MaxGrid}

\* test_xy_to_1d_spikes and test_xy_to_1d_linear, in quanta of 0.1
TestSpikesArg ==
    [xy |-> <<<<21, Rat(6, 10)>>, <<43, Rat(2, 10)>>, <<51, Rat(3, 10)>>>>,
     x_values |-> arange(0, 60, 10), spikes |-> TRUE]
TestLinearArg ==
    [xy |-> <<<<10, Rat(5, 10)>>, <<30, Rat(15, 10)>>>>,
     x_values |-> arange(0, 60, 10), spikes |-> FALSE]

\* interpolation is drawn on points with distinct x
ResampleArgs ==
    {a \in [xy : SeqsUpTo(Points, MaxPts), x_values : Grids, spikes : BOOLEAN] :
        a.spikes \/ DistinctX(a.xy)}
    \cup {TestSpikesArg, TestLinearArg}

Elements == {"Na", "O"}
OrbitalKeys == {"energy", "s", "p"}

\* the array an input holds under (element, key): all different
InputArray(el, key) ==
    LET a == IF el = "Na" THEN 1 ELSE 2
        b == CASE key = "energy" -> 1 [] key = "s" -> 3 [] OTHER -> 5
    IN  <<RInt(a * b), RInt(a + b)>>

DistinctKeys(od) == \A i, j \in DOMAIN od : i # j => od[i] # od[j]

KeySeqs(S) == {q \in SeqsUpTo(S, Cardinality(S)) : DistinctKeys(q)}

\* the orbitals of one element: 'energy' and any of the orbitals, in any order
OrbitalDicts(el) ==
    {[i \in DOMAIN q |-> <<q[i], InputArray(el, q[i])>>] :
        q \in {k \in KeySeqs(OrbitalKeys) : \E i \in DOMAIN k : k[i] = "energy"}}

PdosInputs ==
    {<<>>}
    \cup UNION {{<<<<el, o>>>> : o \in OrbitalDicts(el)} : el \in Elements}
    \cup UNION {{<<<<e1, o1>>, <<e2, o2>>>> :
                    o1 \in OrbitalDicts(e1), o2 \in OrbitalDicts(e2)} :
                <<e1, e2>> \in {p \in Elements \X Elements : p[1] # p[2]}}

WeightValues == {CsNone, RInt(2), RInt(3)}

\* the cross-sections of one element: a weight or None for any of its
\* orbitals, and possibly a 'warning'
ElementCs ==
    UNION {[K -> WeightValues] : K \in SUBSET {"s", "p"}}
    \cup UNION {{f @@ ("warning" :> CsNone) : f \in [K -> WeightValues]} :
                  K \in SUBSET {"s", "p"}}

CrossSections ==
    {[type |-> "dict", items |-> f] :
        f \in UNION {[K -> ElementCs] : K \in SUBSET Elements}}
    \cup {[type |-> "list", items |-> <<>>]}

WeightArgs == [pdos_data : PdosInputs, cross_sections : CrossSections]

\* the two-column data a reader returns: points with distinct x on
\* multiples of PaddingInv
FileXs == {0, PaddingInv, 2 * PaddingInv}
Files1D ==
    {xy \in [1..2 -> {<<x, y>> : x \in FileXs, y \in Samples}] : DistinctX(xy)}

Samplings == {12, 16}
PdosSamplings == {16, 20}

\* widths of twice the sampling keep the kernels on small denominators
DriverWidths(d) == {2 * d}

WidthArgs ==
    {NoneArg, Some(0)}
    \cup UNION {{Some(w) : w \in DriverWidths(d)} : d \in Samplings \cup PdosSamplings}

Args1D ==
    {a \in [flipx : {"absent", "False", "True"},
            input : {"str", "list1", "list2"},
            exists : BOOLEAN,
            file : Files1D,
            spikes : BOOLEAN,
            sampling : Samplings,
            xmin : {NoneArg, Some(0)},
            xmax : {NoneArg, Some(30)},
            lorentzian : WidthArgs,
            gaussian : WidthArgs] :
        /\ a.lorentzian \notin {NoneArg, Some(0)} => a.lorentzian[1] \in DriverWidths(a.sampling)
        /\ a.gaussian \notin {NoneArg, Some(0)} => a.gaussian[1] \in DriverWidths(a.sampling)}

\* the files process_pdos may be given.  A text file has a name, which gives
\* the element or not, and columns under labels, the first the energy; an
\* xml or gpw file holds the data of all its elements, a gpw one with an
\* orbital set to None
TxtFile(exists, element, label, energy, orbitals) ==
    [kind |-> "txt", exists |-> exists, element |-> element,
     data |-> <<<<label, energy>>>> \o orbitals]

NaOrbitals == <<<<"s", <<RInt(1), RInt(0)>>>>, <<"p", <<RInt(0), RInt(1)>>>>>>
OOrbitals == <<<<"s", <<RInt(1), RInt(1)>>>>>>
NaEnergy == <<0, PaddingInv>>
OEnergy == <<PaddingInv, 2 * PaddingInv>>

PdosFiles ==
    {TxtFile(TRUE, Some("Na"), "energy", NaEnergy, NaOrbitals),
     TxtFile(TRUE, Some("O"), "energy", OEnergy, OOrbitals),
     TxtFile(TRUE, Some("O"), "E", OEnergy, OOrbitals),
     TxtFile(FALSE, Some("O"), "energy", OEnergy, OOrbitals),
     TxtFile(TRUE, NoneArg, "energy", NaEnergy, NaOrbitals),
     [kind |-> "xml", exists |-> TRUE, element |-> NoneArg,
      data |-> <<<<"O", <<<<"energy", OEnergy>>>> \o OOrbitals>>,
                 <<"Na", <<<<"energy", NaEnergy>>>> \o NaOrbitals>>>>],
     [kind |-> "gpw", exists |-> TRUE, element |-> NoneArg,
      data |-> <<<<"Na", <<<<"s", NoneArray>>, <<"energy", NaEnergy>>,
                          <<"p", <<RInt(1), RInt(1)>>>>>>>>>>]}

\* tabulated cross-sections: complete, with a null and a missing orbital,
\* and with an element missing
PdosDatasets ==
    {[type |-> "dict",
      items |-> [el \in Elements |-> [orb \in {"s", "p"} |->
                    IF orb = "s" THEN RInt(2) ELSE RInt(3)]]],
     [type |-> "dict",
      items |-> [el \in Elements |->
                    IF el = "Na" THEN [orb \in {"s"} |-> RInt(2)]
                    ELSE [orb \in {"s"} |-> CsNone]]],
     [type |-> "dict",
      items |-> [el \in {"Na"} |-> [orb \in {"s", "p"} |-> RInt(3)]]]}

\* three text files of which one has another energy label
ThreeFiles ==
    LET Na == TxtFile(TRUE, Some("Na"), "energy", NaEnergy, NaOrbitals)
        O == TxtFile(TRUE, Some("O"), "energy", OEnergy, OOrbitals)
        OE == TxtFile(TRUE, Some("O"), "E", OEnergy, OOrbitals)
    IN  {<<Na, O, OE>>, <<Na, OE, O>>, <<OE, Na, O>>}

ArgsPdos ==
    {a \in [input : SeqsUpTo(PdosFiles, 2) \cup ThreeFiles,
            gaussian : WidthArgs,
            lorentzian : WidthArgs,
            weighting : {NoneArg, Some("alka"), Some("xps")},
            dataset : PdosDatasets,
            sampling : PdosSamplings,
            xmin : {NoneArg, Some(0)},
            xmax : {NoneArg, Some(30)},
            flipx : BOOLEAN] :
        /\ a.lorentzian \notin {NoneArg, Some(0)} => a.lorentzian[1] \in DriverWidths(a.sampling)
        /\ a.gaussian \notin {NoneArg, Some(0)} => a.gaussian[1] \in DriverWidths(a.sampling)
        /\ a.weighting # Some("alka") =>
               a.dataset = CHOOSE ds \in PdosDatasets : DOMAIN ds.items # Elements}

(***************************************************************************)
(* The broaden specification: one call of broaden on drawn inputs          *)
(***************************************************************************)
InitBroaden ==
    /\ fn = "broaden"
    /\ pc = "call"
    /\ arg \in BroadenArgs
    /\ ret = None
    /\ heap = <<>>
    /\ env = <<>>
    /\ calls = <<>>

Broaden ==
    /\ fn = "broaden"
    /\ pc = "call"
    /\ ret' = broaden(arg.data, arg.dist, arg.width, arg.pad, arg.d)
    /\ pc' = "done"
    /\ UNCHANGED <<fn, arg, heap, env, calls>>

NextBroaden == Broaden

SpecBroaden == InitBroaden /\ [][NextBroaden]_vars

(***************************************************************************)
(* The resampling specification: one call of xy_to_1d on drawn inputs      *)
(***************************************************************************)
InitResample ==
    /\ fn = "xy_to_1d"
    /\ pc = "call"
    /\ arg \in ResampleArgs
    /\ ret = None
    /\ heap = <<>>
    /\ env = <<>>
    /\ calls = <<>>

Resample ==
    /\ fn = "xy_to_1d"
    /\ pc = "call"
    /\ ret' = xy_to_1d(arg.xy, arg.x_values, arg.spikes)
    /\ pc' = "done"
    /\ UNCHANGED <<fn, arg, heap, env, calls>>

NextResample == Resample

SpecResample == InitResample /\ [][NextResample]_vars

(***************************************************************************)
(* The weighting specification: one call of apply_orbital_weights          *)
(***************************************************************************)
InitWeights ==
    /\ fn = "apply_orbital_weights"
    /\ pc = "call"
    /\ arg \in WeightArgs
    /\ ret = None
    /\ heap = <<>>
    /\ env = <<>>
    /\ calls = <<>>

Weigh ==
    /\ fn = "apply_orbital_weights"
    /\ pc = "call"
    /\ ret' = apply_orbital_weights(arg.pdos_data, arg.cross_sections)
    /\ pc' = "done"
    /\ UNCHANGED <<fn, arg, heap, env, calls>>

NextWeights == Weigh

SpecWeights == InitWeights /\ [][NextWeights]_vars

(***************************************************************************)
(* process_1d_data, statement by statement                                 *)
(***************************************************************************)
\* the series the stage calls of process_1d_data work on
OneSeries == <<"1d">>

Init1D ==
    /\ fn = "process_1d_data"
    /\ pc = "check"
    /\ arg \in Args1D
    /\ ret = None
    /\ heap = <<>>
    /\ env = <<>>
    /\ calls = <<>>

\* the bug of looking at the input before the flipx guard
checks_1d_input_first(flipx, input, exists) ==
    IF input = "list2"
    THEN Raise("ValueError")
    ELSE IF ~exists
    THEN RaiseMsg("Exception", "Input file does not exist!")
    ELSE IF flipx = "True"
    THEN RaiseMsg("Exception", "x-flip not currently implemented in 1D mode.")
    ELSE None

\* the statements before the file is read: the flipx guard, the length of an
\* input list, the existence of the file; None when none of them raises
checks_1d(flipx, input, exists) ==
    IF flipx = "True"
    THEN RaiseMsg("Exception", "x-flip not currently implemented in 1D mode.")
    ELSE IF input = "list2"
    THEN Raise("ValueError")
    ELSE IF ~exists
    THEN RaiseMsg("Exception", "Input file does not exist!")
    ELSE None

\* the flipx guard, the input list and the existence of the file
P1_Check ==
    /\ fn = "process_1d_data"
    /\ pc = "check"
    /\ LET raised == checks_1d(arg.flipx, arg.input, arg.exists)
       IN  IF raised # None
           THEN ret' = raised /\ pc' = "done"
           ELSE ret' = ret /\ pc' = "read"
    /\ UNCHANGED <<fn, arg, heap, env, calls>>

\* the reader's result, and xmin, xmax from auto_limits where not given
P1_Read ==
    /\ fn = "process_1d_data"
    /\ pc = "read"
    /\ LET xy_data == arg.file
           auto == auto_limits(column_x(xy_data))
       IN  env' = [xy_data |-> xy_data,
                   xmax |-> IF arg.xmax = NoneArg THEN auto[2] ELSE arg.xmax[1],
                   xmin |-> IF arg.xmin = NoneArg THEN auto[1] ELSE arg.xmin[1]]
    /\ pc' = "resample"
    /\ UNCHANGED <<fn, arg, ret, heap, calls>>

\* x_values = np.arange(xmin, xmax, d); data_1d = xy_to_1d(xy_data, x_values, spikes)
P1_Resample ==
    /\ fn = "process_1d_data"
    /\ pc = "resample"
    /\ LET d == arg.sampling
           x_values == arange(env.xmin, env.xmax, d)
           data_1d == xy_to_1d(env.xy_data, x_values, arg.spikes)
       IN  IF data_1d.kind = "raise"
           THEN /\ ret' = data_1d
                /\ pc' = "done"
                /\ heap' = Append(heap, x_values)
                /\ env' = [d |-> d, x_values |-> new_address(heap)] @@ env
                /\ calls' = calls
           ELSE /\ ret' = ret
                /\ pc' = "copy"
                /\ heap' = heap \o <<x_values, data_1d.val>>
                /\ env' = [d |-> d, x_values |-> new_address(heap),
                           data_1d |-> new_address(heap) + 1] @@ env
                /\ calls' = Append(calls,
                       [fn |-> "xy_to_1d", series |-> OneSeries,
                        out |-> new_address(heap) + 1])
    /\ UNCHANGED <<fn, arg>>

\* broadened_data = data_1d.copy()
P1_Copy ==
    /\ fn = "process_1d_data"
    /\ pc = "copy"
    /\ LET c == array_copy(heap, env.data_1d)
       IN  /\ heap' = c.heap
           /\ env' = [broadened_data |-> c.address] @@ env
    /\ pc' = next_stage("copy")
    /\ UNCHANGED <<fn, arg, ret, calls>>

\* the bug of a broaden that writes its result into the array it was given
BroadenStageInPlace(series, dist, width, after) ==
    LET r == broaden(heap[env.broadened_data], dist, width, 0, env.d)
    IN  IF r.kind = "raise"
        THEN /\ ret' = r
             /\ pc' = "done"
             /\ UNCHANGED <<heap, env, calls>>
        ELSE /\ ret' = ret
             /\ pc' = after
             /\ heap' = [heap EXCEPT ![env.broadened_data] = r.val]
             /\ env' = env
             /\ calls' = Append(calls,
                    [fn |-> "broaden", series |-> series, dist |-> dist,
                     width |-> width, data |-> env.broadened_data,
                     out |-> env.broadened_data])

\* broadened_data = galore.broaden(broadened_data, d=d, dist=dist, width=width)
\* in a driver, followed by the jump to `after`
BroadenStage(series, dist, width, after) ==
    LET r == broaden(heap[env.broadened_data], dist, width, 0, env.d)
    IN  IF r.kind = "raise"
        THEN /\ ret' = r
             /\ pc' = "done"
             /\ UNCHANGED <<heap, env, calls>>
        ELSE /\ ret' = ret
             /\ pc' = after
             /\ heap' = Append(heap, r.val)
             /\ env' = [env EXCEPT !.broadened_data = new_address(heap)]
             /\ calls' = Append(calls,
                    [fn |-> "broaden", series |-> series, dist |-> dist,
                     width |-> width, data |-> env.broadened_data,
                     out |-> new_address(heap)])

\* if lorentzian: broadened_data = galore.broaden(..., dist='lorentzian', ...)
P1_Lorentzian ==
    /\ fn = "process_1d_data"
    /\ pc = "lorentzian"
    /\ IF Truthy(arg.lorentzian)
       THEN BroadenStage(OneSeries, "lorentzian", arg.lorentzian[1],
                         IF next_stage("lorentzian") = "end"
                         THEN "return" ELSE next_stage("lorentzian"))
       ELSE /\ pc' = IF next_stage("lorentzian") = "end"
                     THEN "return" ELSE next_stage("lorentzian")
            /\ UNCHANGED <<ret, heap, env, calls>>
    /\ UNCHANGED <<fn, arg>>

\* if gaussian: broadened_data = galore.broaden(..., dist='gaussian', ...)
P1_Gaussian ==
    /\ fn = "process_1d_data"
    /\ pc = "gaussian"
    /\ IF Truthy(arg.gaussian)
       THEN BroadenStage(OneSeries, "gaussian", arg.gaussian[1],
                         IF next_stage("gaussian") = "end"
                         THEN "return" ELSE next_stage("gaussian"))
       ELSE /\ pc' = IF next_stage("gaussian") = "end"
                     THEN "return" ELSE next_stage("gaussian")
            /\ UNCHANGED <<ret, heap, env, calls>>
    /\ UNCHANGED <<fn, arg>>

\* return (x_values, broadened_data)
P1_Return ==
    /\ fn = "process_1d_data"
    /\ pc = "return"
    /\ ret' = [kind |-> "value",
               val |-> <<heap[env.x_values], heap[env.broadened_data]>>,
               object |-> <<env.x_values, env.broadened_data>>]
    /\ pc' = "done"
    /\ UNCHANGED <<fn, arg, heap, env, calls>>

(***************************************************************************)
(* process_pdos, statement by statement                                    *)
(*                                                                         *)
(* pdos_data holds the arrays read from the files by value; the arrays the *)
(* driver makes are heap objects and pdos_plotting_data holds addresses.   *)
(***************************************************************************)
InitPdos ==
    /\ fn = "process_pdos"
    /\ pc = "input"
    /\ arg \in ArgsPdos
    /\ ret = None
    /\ heap = <<>>
    /\ env = <<>>
    /\ calls = <<>>

\* input = [input] for one file; energy_label = None; pdos_data = OrderedDict()
PP_Input ==
    /\ fn = "process_pdos"
    /\ pc = "input"
    /\ env' = [input |-> arg.input, i |-> 1, energy_label |-> NoneArg,
               pdos_data |-> <<>>]
    /\ pc' = IF Len(arg.input) = 0 THEN "limits" ELSE "file"
    /\ UNCHANGED <<fn, arg, ret, heap, calls>>

\* the bug of not comparing the energy labels of the files
labels_unchecked(energy_label, name) == TRUE

\* if energy_label is None: the first file sets it;
\* else: assert data.dtype.names[0] == energy_label
labels_consistent(energy_label, name) ==
    energy_label = NoneArg \/ name = energy_label[1]

\* one pass of `for pdos_file in input:`
PP_File ==
    /\ fn = "process_pdos"
    /\ pc = "file"
    /\ LET pdos_file == env.input[env.i]
           then == IF env.i = Len(env.input) THEN "limits" ELSE "file"
       IN  IF pdos_file.kind \in {"xml", "gpw"}
           THEN /\ env' = [env EXCEPT !.pdos_data = pdos_file.data]
                /\ pc' = "limits"
                /\ ret' = ret
           ELSE IF ~pdos_file.exists \/ pdos_file.element = NoneArg
           THEN /\ ret' = Raise("Exception")
                /\ pc' = "done"
                /\ env' = env
           ELSE IF ~labels_consistent(env.energy_label, pdos_file.data[1][1])
           THEN /\ ret' = Raise("AssertionError")
                /\ pc' = "done"
                /\ env' = env
           ELSE /\ env' = [env EXCEPT
                    !.i = env.i + 1,
                    !.energy_label = Some(pdos_file.data[1][1]),
                    !.pdos_data = od_update(env.pdos_data, pdos_file.element[1],
                        <<<<"energy", pdos_file.data[1][2]>>>>
                        \o Tail(pdos_file.data))]
                /\ pc' = then
                /\ ret' = ret
    /\ UNCHANGED <<fn, arg, heap, calls>>

\* the limits of every element and the unpacking of zip(*limits)
pdos_limits(pdos_data) ==
    IF Len(pdos_data) = 0
    THEN Raise("ValueError")
    ELSE LET limits == [e \in DOMAIN pdos_data |->
                           auto_limits(od_get(pdos_data[e][2], "energy"))]
         IN  Value(<<[e \in DOMAIN limits |-> limits[e][1]],
                     [e \in DOMAIN limits |-> limits[e][2]]>>)

\* if flipx: xmin, xmax = -xmax, -xmin
flip_limits(flipx, xmin, xmax) ==
    IF flipx THEN <<-xmax, -xmin>> ELSE <<xmin, xmax>>

\* d, the limits, the flip, x_values and the new pdos_plotting_data
PP_Limits ==
    /\ fn = "process_pdos"
    /\ pc = "limits"
    /\ LET l == pdos_limits(env.pdos_data)
       IN  IF l.kind = "raise"
           THEN /\ ret' = l
                /\ pc' = "done"
                /\ UNCHANGED <<heap, env>>
           ELSE LET xmax == IF arg.xmax = NoneArg
                            THEN SeqMax(l.val[2]) ELSE arg.xmax[1]
                    xmin == IF arg.xmin = NoneArg
                            THEN SeqMin(l.val[1]) ELSE arg.xmin[1]
                    flipped == flip_limits(arg.flipx, xmin, xmax)
                IN  /\ heap' = Append(heap,
                                   arange(flipped[1], flipped[2], arg.sampling))
                    /\ env' = [d |-> arg.sampling, xmin |-> flipped[1],
                               xmax |-> flipped[2],
                               x_values |-> new_address(heap),
                               pdos_plotting_data |-> <<>>, e |-> 1, o |-> 1]
                              @@ env
                    /\ ret' = ret
                    /\ pc' = "element"
    /\ UNCHANGED <<fn, arg, calls>>

\* for element, el_data in pdos_data.items():
\*     pdos_plotting_data[element] = OrderedDict([('energy', x_values)])
PP_Element ==
    /\ fn = "process_pdos"
    /\ pc = "element"
    /\ IF env.e > Len(env.pdos_data)
       THEN /\ pc' = "weighting"
            /\ env' = env
       ELSE /\ pc' = "orbital"
            /\ env' = [env EXCEPT
                   !.o = 1,
                   !.pdos_plotting_data =
                       od_update(env.pdos_plotting_data, env.pdos_data[env.e][1],
                                 <<<<"energy", env.x_values>>>>)]
    /\ UNCHANGED <<fn, arg, ret, heap, calls>>

\* the bug of weighting as soon as one element is through
orbitals_done_weigh == "weighting"

\* the end of the inner loop: on to the next element
orbitals_done == "element"

\* for orbital, orb_data in el_data.items(): the two `continue`s
PP_Orbital ==
    /\ fn = "process_pdos"
    /\ pc = "orbital"
    /\ LET el_data == env.pdos_data[env.e][2]
       IN  IF env.o > Len(el_data)
           THEN /\ pc' = orbitals_done
                /\ env' = [env EXCEPT !.e = env.e + 1]
           ELSE IF el_data[env.o][1] = "energy" \/ el_data[env.o][2] = NoneArray
           THEN /\ pc' = "orbital"
                /\ env' = [env EXCEPT !.o = env.o + 1]
           ELSE /\ pc' = "resample"
                /\ env' = env
    /\ UNCHANGED <<fn, arg, ret, heap, calls>>

\* the series the stage calls of process_pdos work on
PdosSeries == <<env.pdos_data[env.e][1], env.pdos_data[env.e][2][env.o][1]>>

\* xy_data = np.column_stack([el_data['energy'], orb_data])
\* pdos_resampled = galore.xy_to_1d(xy_data, x_values)
PP_Resample ==
    /\ fn = "process_pdos"
    /\ pc = "resample"
    /\ LET el_data == env.pdos_data[env.e][2]
           energy == od_get(el_data, "energy")
           orb_data == el_data[env.o][2]
           xy_data == [i \in DOMAIN energy |-> <<energy[i], orb_data[i]>>]
           pdos_resampled == xy_to_1d(xy_data, heap[env.x_values], FALSE)
       IN  IF pdos_resampled.kind = "raise"
           THEN /\ ret' = pdos_resampled
                /\ pc' = "done"
                /\ UNCHANGED <<heap, env, calls>>
           ELSE /\ ret' = ret
                /\ pc' = "copy"
                /\ heap' = Append(heap, pdos_resampled.val)
                /\ env' = [pdos_resampled |-> new_address(heap)] @@ env
                /\ calls' = Append(calls,
                       [fn |-> "xy_to_1d", series |-> PdosSeries,
                        out |-> new_address(heap)])
    /\ UNCHANGED <<fn, arg>>

\* broadened_data = pdos_resampled.copy()
PP_Copy ==
    /\ fn = "process_pdos"
    /\ pc = "copy"
    /\ LET c == array_copy(heap, env.pdos_resampled)
       IN  /\ heap' = c.heap
           /\ env' = [broadened_data |-> c.address] @@ env
    /\ pc' = next_stage("copy")
    /\ UNCHANGED <<fn, arg, ret, calls>>

\* if lorentzian: broadened_data = galore.broaden(..., dist='lorentzian', ...)
PP_Lorentzian ==
    /\ fn = "process_pdos"
    /\ pc = "lorentzian"
    /\ IF Truthy(arg.lorentzian)
       THEN BroadenStage(PdosSeries, "lorentzian", arg.lorentzian[1],
                         IF next_stage("lorentzian") = "end"
                         THEN "store" ELSE next_stage("lorentzian"))
       ELSE /\ pc' = IF next_stage("lorentzian") = "end"
                     THEN "store" ELSE next_stage("lorentzian")
            /\ UNCHANGED <<ret, heap, env, calls>>
    /\ UNCHANGED <<fn, arg>>

\* if gaussian: broadened_data = galore.broaden(..., dist='gaussian', ...)
PP_Gaussian ==
    /\ fn = "process_pdos"
    /\ pc = "gaussian"
    /\ IF Truthy(arg.gaussian)
       THEN BroadenStage(PdosSeries, "gaussian", arg.gaussian[1],
                         IF next_stage("gaussian") = "end"
                         THEN "store" ELSE next_stage("gaussian"))
       ELSE /\ pc' = IF next_stage("gaussian") = "end"
                     THEN "store" ELSE next_stage("gaussian")
            /\ UNCHANGED <<ret, heap, env, calls>>
    /\ UNCHANGED <<fn, arg>>

\* pdos_plotting_data[element][orbital] = broadened_data
PP_Store ==
    /\ fn = "process_pdos"
    /\ pc = "store"
    /\ LET element == PdosSeries[1]
           orbital == PdosSeries[2]
       IN  env' = [env EXCEPT
               !.o = env.o + 1,
               !.pdos_plotting_data =
                   od_update(env.pdos_plotting_data, element,
                       od_update(od_get(env.pdos_plotting_data, element),
                                 orbital, env.broadened_data))]
    /\ pc' = "orbital"
    /\ UNCHANGED <<fn, arg, ret, heap, calls>>

\* min_energy, max_energy = 1., 1500.
min_energy == 1

max_energy == 1500

\* float(weighting): a number as it is, a string that spells a number as that
\* number, ValueError for any other string and TypeError for what is neither
float(weighting) ==
    CASE weighting.type \in {"float", "int"} -> Value(weighting.v)
      [] weighting.type = "str" ->
            CASE weighting.s = "0" -> Value(0)
              [] weighting.s = "1" -> Value(1)
              [] weighting.s = "42" -> Value(42)
              [] weighting.s = "1.4e2" -> Value(140)
              [] weighting.s = "1500" -> Value(1500)
              [] weighting.s = "2000" -> Value(2000)
              [] OTHER -> Raise("ValueError")
      [] OTHER -> Raise("TypeError")

\* str.lower() on the strings in use
lower(s) ==
    CASE s \in {"Alka", "ALKA"} -> "alka"
      [] s \in {"He2", "HE2"} -> "he2"
      [] s = "YEH_HAXPES" -> "yeh_haxpes"
      [] s \in {"Xps", "XPS"} -> "xps"
      [] s = "UPS" -> "ups"
      [] s = "Haxpes" -> "haxpes"
      [] OTHER -> s

\* get_cross_sections_json: the content of the file, IOError when there is
\* no file of that name
get_cross_sections_json(path, fs) ==
    IF path \in DOMAIN fs
    THEN Value(fs[path])
    ELSE RaiseMsg("IOError", "does not exist")

\* the files shipped for the three radiation sources
weighting_files ==
    [source \in {"alka", "he2", "yeh_haxpes"} |->
        CASE source = "alka" -> "data/cross_sections.json"
          [] source = "he2" -> "data/cross_sections_ups.json"
          [] source = "yeh_haxpes" -> "data/cross_sections_haxpes.json"]

\* get_cross_sections_yeh: the shipped file of the source, named in any
\* letter case
get_cross_sections_yeh(source, fs) ==
    IF lower(source) \in DOMAIN weighting_files
    THEN get_cross_sections_json(weighting_files[lower(source)], fs)
    ELSE RaiseMsg("Exception", "not recognised")

\* the elements of the fitted table when none are asked for (the head and the
\* tail of the list of 100)
all_elements == <<"H", "He", "Li", "Fm">>

\* the limits only: the least member of an array against min_energy, the
\* greatest against max_energy, and one number against both; None when the
\* check passes.  min() of an empty array is a ValueError of its own
energy_limits_low(energy) ==
    IF energy.type = "array" /\ Len(energy.a) = 0
    THEN RaiseMsg("ValueError", "empty sequence")
    ELSE IF (IF energy.type = "array"
             THEN \E i \in DOMAIN energy.a : energy.a[i] < min_energy
             ELSE energy.v < min_energy)
    THEN RaiseMsg("ValueError", "not available below 1 keV")
    ELSE None

energy_limits(energy) ==
    IF energy.type = "array" /\ Len(energy.a) = 0
    THEN RaiseMsg("ValueError", "empty sequence")
    ELSE LET low == IF energy.type = "array"
                    THEN \E i \in DOMAIN energy.a : energy.a[i] < min_energy
                    ELSE energy.v < min_energy
             high == IF energy.type = "array"
                     THEN \E i \in DOMAIN energy.a : energy.a[i] > max_energy
                     ELSE energy.v > max_energy
         IN  IF low THEN RaiseMsg("ValueError", "not available below 1 keV")
             ELSE IF high
             THEN RaiseMsg("ValueError", "not available above 1500 keV")
             ELSE None

\* the table fitted at the energy for the elements asked for, read from the
\* database
scofield_table(energy, elements) ==
    [type |-> "dict", source |-> "scofield", energy |-> energy,
     elements |-> IF elements = NoneArg THEN all_elements ELSE elements[1]]

\* get_cross_sections_scofield: no table outside 1..1500 keV, for one energy
\* or for an array of them; otherwise the table fitted at that energy for the
\* elements asked for
get_cross_sections_scofield(energy, elements) ==
    IF energy_limits(energy) # None
    THEN energy_limits(energy)
    ELSE Value(scofield_table(energy, elements))

\* get_cross_sections: the result and the readers called on the way.  The
\* number goes to the fitted table inside the try block, so a ValueError of
\* the fit is handled like the ValueError of float(): a string goes on to the
\* keywords and the JSON path, anything else to the closing ValueError
get_cross_sections(weighting, elements, fs) ==
    LET energy == float(weighting)
        fitted == get_cross_sections_scofield(
                      [type |-> "float", v |-> energy.val], elements)
        tried == IF energy.kind = "value"
                 THEN <<[fn |-> "get_cross_sections_scofield",
                         energy |-> energy.val, elements |-> elements]>>
                 ELSE <<>>
    IN  IF energy.kind = "raise" /\ energy.exc # "ValueError"
        THEN [ret |-> energy, calls |-> <<>>]
        ELSE IF energy.kind = "value" /\ fitted.kind = "value"
        THEN [ret |-> fitted, calls |-> tried]
        ELSE IF weighting.type = "str"
        THEN IF lower(weighting.s) \in {"alka", "he2", "yeh_haxpes"}
             THEN [ret |-> get_cross_sections_yeh(weighting.s, fs),
                   calls |-> Append(tried,
                                [fn |-> "get_cross_sections_yeh",
                                 source |-> weighting.s])]
             ELSE IF lower(weighting.s) \in {"xps", "ups", "haxpes"}
             THEN [ret |-> RaiseMsg("ValueError", "no longer accepted"),
                   calls |-> tried]
             ELSE [ret |-> get_cross_sections_json(weighting.s, fs),
                   calls |-> Append(tried,
                                [fn |-> "get_cross_sections_json",
                                 path |-> weighting.s])]
        ELSE [ret |-> RaiseMsg("ValueError", "not understood"),
              calls |-> tried]

\* the shipped files, all holding the data set in use
shipped_files(dataset) ==
    [path \in {weighting_files[source] : source \in DOMAIN weighting_files} |->
        dataset]

\* the arrays behind the addresses of pdos_plotting_data
plotting_values(h, plotting) ==
    [e \in DOMAIN plotting |->
        <<plotting[e][1],
          [o \in DOMAIN plotting[e][2] |->
              <<plotting[e][2][o][1], h[plotting[e][2][o][2]]>>]>>]

\* the weighted arrays as new heap objects, in the order they are made; the
\* 'energy' entries stay the object they were
weighted_objects(h, x_values, weighted) ==
    LET slots == UNION {{<<e, o>> : o \in {k \in DOMAIN weighted[e][2] :
                                              weighted[e][2][k][1] # "energy"}} :
                        e \in DOMAIN weighted}
        rank(e, o) == Cardinality({t \in slots :
                          t[1] < e \/ (t[1] = e /\ t[2] <= o)})
        slot(k) == CHOOSE t \in slots : rank(t[1], t[2]) = k
    IN  [heap |-> [k \in 1..(Len(h) + Cardinality(slots)) |->
                      IF k <= Len(h) THEN h[k]
                      ELSE weighted[slot(k - Len(h))[1]][2][slot(k - Len(h))[2]][2]],
         data |-> [e \in DOMAIN weighted |->
                      <<weighted[e][1],
                        [o \in DOMAIN weighted[e][2] |->
                            <<weighted[e][2][o][1],
                              IF weighted[e][2][o][1] = "energy"
                              THEN x_values
                              ELSE Len(h) + rank(e, o)>>]>>]]

\* if weighting: cross_sections = galore.get_cross_sections(weighting, ...)
\*     pdos_plotting_data = galore.apply_orbital_weights(pdos_plotting_data,
\*                                                       cross_sections)
PP_Weighting ==
    /\ fn = "process_pdos"
    /\ pc = "weighting"
    /\ IF arg.weighting = NoneArg
       THEN /\ pc' = "return"
            /\ UNCHANGED <<ret, heap, env, calls>>
       ELSE LET cross_sections ==
                    get_cross_sections([type |-> "str", s |-> arg.weighting[1]],
                        Some([e \in DOMAIN env.pdos_data |-> env.pdos_data[e][1]]),
                        shipped_files(arg.dataset)).ret
                weighted == IF cross_sections.kind = "raise" THEN cross_sections
                            ELSE apply_orbital_weights(
                                     plotting_values(heap, env.pdos_plotting_data),
                                     cross_sections.val)
            IN  IF weighted.kind = "raise"
                THEN /\ ret' = [kind |-> "raise", exc |-> weighted.exc]
                     /\ pc' = "done"
                     /\ UNCHANGED <<heap, env, calls>>
                ELSE LET w == weighted_objects(heap, env.x_values, weighted.val)
                     IN  /\ heap' = w.heap
                         /\ env' = [env EXCEPT !.pdos_plotting_data = w.data]
                         /\ calls' = Append(calls,
                                [fn |-> "apply_orbital_weights",
                                 warnings |-> weighted.warnings,
                                 data |-> env.pdos_plotting_data,
                                 out |-> w.data])
                         /\ ret' = ret
                         /\ pc' = "return"
    /\ UNCHANGED <<fn, arg>>

\* the bug of ending the function without a return statement: None
returned_none(h, pdos_plotting_data) == None

\* what `return pdos_plotting_data` hands to the caller: the mapping, as the
\* arrays it holds and as the objects they are
returned(h, pdos_plotting_data) ==
    [kind |-> "value",
     val |-> plotting_values(h, pdos_plotting_data),
     object |-> pdos_plotting_data]

\* return pdos_plotting_data
PP_Return ==
    /\ fn = "process_pdos"
    /\ pc = "return"
    /\ ret' = returned(heap, env.pdos_plotting_data)
    /\ pc' = "done"
    /\ UNCHANGED <<fn, arg, heap, env, calls>>

(***************************************************************************)
(* The pipeline specification: one call of either driver on drawn inputs   *)
(***************************************************************************)
InitPipe ==
    \/ Init1D
    \/ InitPdos

NextPipe ==
    \/ P1_Check
    \/ P1_Read
    \/ P1_Resample
    \/ P1_Copy
    \/ P1_Lorentzian
    \/ P1_Gaussian
    \/ P1_Return
    \/ PP_Input
    \/ PP_File
    \/ PP_Limits
    \/ PP_Element
    \/ PP_Orbital
    \/ PP_Resample
    \/ PP_Copy
    \/ PP_Lorentzian
    \/ PP_Gaussian
    \/ PP_Store
    \/ PP_Weighting
    \/ PP_Return

SpecPipe == InitPipe /\ [][NextPipe]_vars

(***************************************************************************)
(* The line shape specification: one call of lorentzian or gaussian.  The  *)
(* point f lies k half-widths from the centre f0, and fwhm = 2 * half.     *)
(***************************************************************************)
MaxHalfWidths == 3

ShapeArgs ==
    [shape : {"lorentzian", "gaussian"}, f0 : (-MaxX)..MaxX,
     half : 1..(MaxWidth + 1), k : (-MaxHalfWidths)..MaxHalfWidths]

InitShapes ==
    /\ fn \in {"lorentzian", "gaussian"}
    /\ pc = "call"
    /\ arg \in {a \in ShapeArgs : a.shape = fn}
    /\ ret = None
    /\ heap = <<>>
    /\ env = <<>>
    /\ calls = <<>>

Shape ==
    /\ fn \in {"lorentzian", "gaussian"}
    /\ pc = "call"
    /\ LET f == arg.f0 + arg.k * arg.half
           fwhm == 2 * arg.half
       IN  ret' = IF fn = "lorentzian"
                  THEN Value(lorentzian(f, arg.f0, fwhm))
                  ELSE Value(gaussian(f, arg.f0, fwhm))
    /\ pc' = "done"
    /\ UNCHANGED <<fn, arg, heap, env, calls>>

NextShapes == Shape

SpecShapes == InitShapes /\ [][NextShapes]_vars

(***************************************************************************)
(* The routing specification: one call of get_cross_sections on a drawn    *)
(* weighting, elements argument and set of files                           *)
(***************************************************************************)
\* a data set that tells its file
FileData(k) ==
    [type |-> "dict",
     items |-> [el \in {"Na"} |-> [orb \in {"s"} |-> RInt(k)]]]

\* numbers inside, on the ends of and outside the fitted range
RouteEnergies == {0, 1, 42, 1500, 2000}

\* strings that spell numbers, keywords in several letter cases, retired keys
\* and other strings
RouteStrings ==
    {"0", "1", "42", "1.4e2", "1500", "2000",
     "alka", "Alka", "ALKA", "he2", "He2", "yeh_haxpes", "YEH_HAXPES",
     "xps", "XPS", "ups", "UPS", "haxpes", "Haxpes",
     "my.json", "nonexistent.json", ""}

RouteWeightings ==
    {[type |-> "float", v |-> e] : e \in RouteEnergies}
        \cup {[type |-> "int", v |-> e] : e \in RouteEnergies}
        \cup {[type |-> "str", s |-> t] : t \in RouteStrings}
        \cup {[type |-> "NoneType"]}

RouteElements == {NoneArg, Some(<<"O">>), Some(<<"Na", "O">>)}

\* the shipped files, alone or beside files of the user
RouteFiles ==
    LET shipped == [path \in {"data/cross_sections.json",
                              "data/cross_sections_ups.json",
                              "data/cross_sections_haxpes.json"} |->
                       CASE path = "data/cross_sections.json" -> FileData(1)
                         [] path = "data/cross_sections_ups.json" -> FileData(2)
                         [] OTHER -> FileData(3)]
        with(user) == [path \in DOMAIN shipped \cup user |->
                          IF path \in user THEN FileData(4) ELSE shipped[path]]
    IN  {with({}), with({"my.json"}), with({"my.json", "2000"})}

RouteArgs ==
    [weighting : RouteWeightings, elements : RouteElements, fs : RouteFiles]

InitRoute ==
    /\ fn = "get_cross_sections"
    /\ pc = "call"
    /\ arg \in RouteArgs
    /\ ret = None
    /\ heap = <<>>
    /\ env = <<>>
    /\ calls = <<>>

Route ==
    /\ fn = "get_cross_sections"
    /\ pc = "call"
    /\ LET r == get_cross_sections(arg.weighting, arg.elements, arg.fs)
       IN  /\ ret' = r.ret
           /\ calls' = r.calls
    /\ pc' = "done"
    /\ UNCHANGED <<fn, arg, heap, env>>

NextRoute == Route

SpecRoute == InitRoute /\ [][NextRoute]_vars

(***************************************************************************)
(* The fit specification: one call of get_cross_sections_scofield on one   *)
(* energy or an array of energies, in two steps: the limits, then the      *)
(* database                                                                *)
(***************************************************************************)
MaxEnergies == 2

ScofieldEnergies ==
    {[type |-> "float", v |-> e] : e \in RouteEnergies}
        \cup {[type |-> "array", a |-> a] :
                 a \in SeqsUpTo({0, 1, 1500, 2000}, MaxEnergies)}

ScofieldArgs == [energy : ScofieldEnergies, elements : RouteElements]

InitScofield ==
    /\ fn = "get_cross_sections_scofield"
    /\ pc = "call"
    /\ arg \in ScofieldArgs
    /\ ret = None
    /\ heap = <<>>
    /\ env = <<>>
    /\ calls = <<>>

\* if isinstance(energy, Iterable): ... else: ...
Sco_Limits ==
    /\ fn = "get_cross_sections_scofield"
    /\ pc = "call"
    /\ LET raised == energy_limits(arg.energy)
       IN  IF raised # None
           THEN ret' = raised /\ pc' = "done"
           ELSE ret' = ret /\ pc' = "db"
    /\ UNCHANGED <<fn, arg, heap, env, calls>>

\* with sqlite3.connect(db_file) as con: ... return el_cross_sections
Sco_Database ==
    /\ fn = "get_cross_sections_scofield"
    /\ pc = "db"
    /\ calls' = Append(calls, [fn |-> "sqlite3.connect",
                               db_file |-> "data/scofield_data.db"])
    /\ ret' = Value(scofield_table(arg.energy, arg.elements))
    /\ pc' = "done"
    /\ UNCHANGED <<fn, arg, heap, env>>

NextScofield ==
    \/ Sco_Limits
    \/ Sco_Database

SpecScofield == InitScofield /\ [][NextScofield]_vars

(***************************************************************************)
(* The ordering specification: one call of apply_orbital_weights or of     *)
(* process_pdos on drawn inputs                                            *)
(***************************************************************************)
InitOrder ==
    \/ InitWeights
    \/ InitPdos

NextOrder ==
    \/ Weigh
    \/ PP_Input
    \/ PP_File
    \/ PP_Limits
    \/ PP_Element
    \/ PP_Orbital
    \/ PP_Resample
    \/ PP_Copy
    \/ PP_Lorentzian
    \/ PP_Gaussian
    \/ PP_Store
    \/ PP_Weighting
    \/ PP_Return

SpecOrder == InitOrder /\ [][NextOrder]_vars

(***************************************************************************)
(* Claims about the broadening stage of the drivers                        *)
(***************************************************************************)
Drivers == {"process_1d_data", "process_pdos"}

BothWidths == fn \in Drivers /\ Truthy(arg.lorentzian) /\ Truthy(arg.gaussian)

IsBroaden(i, dist) == calls[i].fn = "broaden" /\ calls[i].dist = dist

\* C3: when both a Lorentzian and a Gaussian width are given, in either
\* driver every Gaussian call of broaden on a series comes after a Lorentzian
\* call of broaden on the same series, and the array it is given is the array
\* that Lorentzian call returned.
C3_LorentzianBeforeGaussian ==
    BothWidths =>
        \A i \in DOMAIN calls :
            IsBroaden(i, "gaussian") =>
                \E j \in 1..(i - 1) :
                    /\ IsBroaden(j, "lorentzian")
                    /\ calls[j].series = calls[i].series
                    /\ calls[j].out = calls[i].data

\* process_pdos has returned after broadening two series with both widths
C3_Witness ==
    /\ fn = "process_pdos"
    /\ BothWidths
    /\ pc = "done"
    /\ ret.kind = "value"
    /\ \E i, j \in DOMAIN calls :
           /\ IsBroaden(i, "gaussian")
           /\ IsBroaden(j, "gaussian")
           /\ calls[i].series # calls[j].series

NoWidths == fn \in Drivers /\ arg.lorentzian = NoneArg /\ arg.gaussian = NoneArg

\* the broadening stage of the current series has just been left
StageLeft ==
    \/ fn = "process_1d_data" /\ pc = "return"
    \/ fn = "process_pdos" /\ pc = "store"

\* the address of the resampled data the stage started from
Resampled ==
    IF fn = "process_1d_data" THEN env.data_1d ELSE env.pdos_resampled

\* C4: when neither width is given, the array the broadening stage leaves
\* has the values of the resampled data, element by element, and is a
\* different array object from the resampled data.
C4_NoWidthsCopy ==
    (NoWidths /\ StageLeft) =>
        /\ heap[env.broadened_data] = heap[Resampled]
        /\ env.broadened_data # Resampled

\* process_1d_data leaves the stage without widths, on data that is not all 0
C4_Witness ==
    /\ fn = "process_1d_data"
    /\ NoWidths
    /\ StageLeft
    /\ \E i \in DOMAIN heap[Resampled] : heap[Resampled][i][1] # 0

(***************************************************************************)
(* Claims about broaden                                                    *)
(***************************************************************************)
BroadenDone == fn = "broaden" /\ pc = "done"

KnownDist(dist) == Lower(dist) \in {"lorentz", "lorentzian", "gauss", "gaussian"}

\* C1: for every non-empty data array and every kernel (known distribution,
\* positive sampled half-width pad, any step d) broaden returns an array of
\* exactly len(data) entries.
C1_LengthInvariance ==
    (/\ BroadenDone
     /\ Len(arg.data) > 0
     /\ KnownDist(arg.dist)
     /\ broaden_pad(arg.width, arg.pad) > 0)
    => (ret.kind = "value" /\ Len(ret.val) = Len(arg.data))

\* a returned array whose kernel is longer than the data and whose pad is
\* not a whole number of steps
C1_Witness ==
    /\ BroadenDone
    /\ ret.kind = "value"
    /\ Len(arg.data) > 0
    /\ arg.pad % arg.d # 0
    /\ arange_len(-arg.pad, arg.pad, arg.d) > Len(arg.data)
    /\ Len(ret.val) = Len(arg.data)

SingleSpike(data, j) ==
    /\ data[j] # RZero
    /\ \A i \in DOMAIN data : i # j => data[i] = RZero

\* C2: for data with a single nonzero sample at index j the output has its
\* maximum at index j and is symmetric about j inside the window, for every
\* pad and step d.
C2_PeakOnIndex ==
    (BroadenDone /\ ret.kind = "value")
    => \A j \in DOMAIN arg.data :
          SingleSpike(arg.data, j)
          => /\ \A i \in DOMAIN ret.val : ~RLess(ret.val[j], ret.val[i])
             /\ \A t \in 1..Len(arg.data) :
                   (j - t >= 1 /\ j + t <= Len(ret.val))
                   => ret.val[j - t] = ret.val[j + t]

(***************************************************************************)
(* Claims about xy_to_1d                                                   *)
(***************************************************************************)
ResampleDone == fn = "xy_to_1d" /\ pc = "done"

SpikesDone == ResampleDone /\ arg.spikes /\ ret.kind = "value"

\* the sum of the y-values of the points whose index is in S
RECURSIVE SumY(_, _, _)
SumY(xy, S, k) ==
    IF k > Len(xy) THEN RZero
    ELSE RAdd(IF k \in S THEN xy[k][2] ELSE RZero, SumY(xy, S, k + 1))

RECURSIVE SeqSum(_, _)
SeqSum(a, k) == IF k > Len(a) THEN RZero ELSE RAdd(a[k], SeqSum(a, k + 1))

\* index = searchsorted(grid, x - 0.5 * step), 0-based, for point k
PointIndex(k) ==
    Cardinality({i \in DOMAIN arg.x_values :
        2 * arg.x_values[i] < 2 * arg.xy[k][1] - (arg.x_values[2] - arg.x_values[1])})

Kept(k) == PointIndex(k) # 0 /\ PointIndex(k) # Len(arg.x_values)

\* C5: in spike mode every point that is not dropped is added to exactly one
\* cell, the one at index searchsorted(grid, x - step/2), whose x-value is
\* within half a step of the point; the test's points give [0,0,0.6,0,0.2,0.3].
C5_SpikeNearestCell ==
    SpikesDone =>
      LET xv == arg.x_values
          d == xv[2] - xv[1]
      IN  /\ \A k \in DOMAIN arg.xy :
                Kept(k) => 2 * Abs(xv[PointIndex(k) + 1] - arg.xy[k][1]) <= d
          /\ \A i \in DOMAIN ret.val :
                ret.val[i] = SumY(arg.xy,
                    {k \in DOMAIN arg.xy : Kept(k) /\ PointIndex(k) + 1 = i}, 1)
          /\ (arg = TestSpikesArg
                => ret.val = <<RZero, RZero, Rat(6, 10), RZero, Rat(2, 10), Rat(3, 10)>>)

\* a kept point off the mesh next to a dropped one
C5_Witness ==
    /\ SpikesDone
    /\ \E k \in DOMAIN arg.xy :
          /\ Kept(k)
          /\ arg.xy[k][2] # RZero
          /\ arg.xy[k][1] # arg.x_values[PointIndex(k) + 1]
          /\ ret.val[PointIndex(k) + 1] # RZero
    /\ \E k \in DOMAIN arg.xy : ~Kept(k)

\* C6: in spike mode a point is dropped iff its index is 0 or len(grid): the
\* call raises nothing, the first cell stays 0, the cells add up to the
\* y-values of the points with another index, and a point on the first mesh
\* value or more than half a step above the last one has index 0 or len(grid).
C6_SpikeDropRule ==
    (ResampleDone /\ arg.spikes /\ Len(arg.x_values) >= 2) =>
      LET xv == arg.x_values
          d == xv[2] - xv[1]
      IN  /\ ret.kind = "value"
          /\ ret.val[1] = RZero
          /\ SeqSum(ret.val, 1) = SumY(arg.xy, {k \in DOMAIN arg.xy : Kept(k)}, 1)
          /\ \A k \in DOMAIN arg.xy :
                /\ arg.xy[k][1] = xv[1] => PointIndex(k) = 0
                /\ 2 * arg.xy[k][1] > 2 * xv[Len(xv)] + d => PointIndex(k) = Len(xv)

\* a point on the first mesh value and a point above the last one, both with
\* intensity, dropped next to a kept point
C6_Witness ==
    /\ SpikesDone
    /\ \E k \in DOMAIN arg.xy :
          arg.xy[k][1] = arg.x_values[1] /\ arg.xy[k][2] # RZero
    /\ SeqSum(ret.val, 1) = RZero
    /\ \E k \in DOMAIN arg.xy :
          /\ 2 * arg.xy[k][1] > 2 * arg.x_values[Len(arg.x_values)]
                                 + (arg.x_values[2] - arg.x_values[1])
          /\ arg.xy[k][2] # RZero

InsideRange(xy, g) ==
    /\ \E k \in DOMAIN xy : xy[k][1] <= g
    /\ \E k \in DOMAIN xy : xy[k][1] >= g

\* a and b are neighbouring points that enclose g
Encloses(xy, a, b, g) ==
    /\ xy[a][1] < xy[b][1]
    /\ xy[a][1] <= g
    /\ g <= xy[b][1]
    /\ \A k \in DOMAIN xy : ~(xy[a][1] < xy[k][1] /\ xy[k][1] < xy[b][1])

\* C7: in interpolate mode each mesh value inside the closed x-range of xy
\* gets the linear interpolation between the neighbouring points (the data y
\* at a data x) and each mesh value outside gets 0; the test's points give
\* [0, 0.5, 1.0, 1.5, 0, 0].
C7_LinearInterpolation ==
    (ResampleDone /\ ~arg.spikes /\ Len(arg.x_values) >= 2
        /\ Len(arg.xy) >= 2) =>
      /\ ret.kind = "value"
      /\ Len(ret.val) = Len(arg.x_values)
      /\ \A i \in DOMAIN arg.x_values :
            LET g == arg.x_values[i]
                xy == arg.xy
            IN  IF InsideRange(xy, g)
                THEN /\ \E a, b \in DOMAIN xy :
                          /\ Encloses(xy, a, b, g)
                          /\ RMul(ret.val[i], RInt(xy[b][1] - xy[a][1]))
                             = RAdd(RMul(xy[a][2], RInt(xy[b][1] - g)),
                                    RMul(xy[b][2], RInt(g - xy[a][1])))
                     /\ \A k \in DOMAIN xy : xy[k][1] = g => ret.val[i] = xy[k][2]
                ELSE ret.val[i] = RZero
      /\ (arg = TestLinearArg
            => ret.val = <<RZero, Rat(1, 2), RInt(1), Rat(3, 2), RZero, RZero>>)

\* unsorted points, a mesh value strictly between two of them with a value
\* that is neither point's y, and a mesh value outside the range
C7_Witness ==
    /\ ResampleDone
    /\ ~arg.spikes
    /\ ret.kind = "value"
    /\ arg.xy[1][1] > arg.xy[2][1]
    /\ \E i \in DOMAIN arg.x_values :
          /\ InsideRange(arg.xy, arg.x_values[i])
          /\ \A k \in DOMAIN arg.xy :
                arg.xy[k][1] # arg.x_values[i] /\ arg.xy[k][2] # ret.val[i]
    /\ \E i \in DOMAIN arg.x_values : ~InsideRange(arg.xy, arg.x_values[i])

(***************************************************************************)
(* Claims about apply_orbital_weights                                      *)
(***************************************************************************)
WeightsDone == fn = "apply_orbital_weights" /\ pc = "done"

\* the table is a dict that has an entry for every element of the data
AllElementsListed ==
    /\ arg.cross_sections.type = "dict"
    /\ \A e \in DOMAIN arg.pdos_data :
          arg.pdos_data[e][1] \in DOMAIN arg.cross_sections.items

\* the weight the table holds for orbital key of element el is None
NullWeight(el, key) ==
    /\ key \in DOMAIN arg.cross_sections.items[el]
    /\ arg.cross_sections.items[el][key] = CsNone

HasWeight(el, key) ==
    /\ key \in DOMAIN arg.cross_sections.items[el]
    /\ arg.cross_sections.items[el][key] # CsNone

\* C8: an orbital whose weight is None is left out of the output, nothing is
\* raised, and the element's 'energy' entry is kept, equal to the input's.
C8_NullWeightDropped ==
    (WeightsDone /\ AllElementsListed) =>
      /\ ret.kind = "value"
      /\ \A e \in DOMAIN arg.pdos_data :
            LET el == arg.pdos_data[e][1]
                orbitals == arg.pdos_data[e][2]
                out == od_get(ret.val, el)
            IN  /\ el \in od_keys(ret.val)
                /\ \A k \in DOMAIN orbitals :
                      (orbitals[k][1] # "energy" /\ NullWeight(el, orbitals[k][1]))
                      => orbitals[k][1] \notin od_keys(out)
                /\ "energy" \in od_keys(out)
                /\ od_get(out, "energy") = od_get(orbitals, "energy")

\* an element with a None weight on s, a number on p and both in the data
C8_Witness ==
    /\ WeightsDone
    /\ ret.kind = "value"
    /\ \E e \in DOMAIN arg.pdos_data :
          LET el == arg.pdos_data[e][1]
              orbitals == arg.pdos_data[e][2]
              out == od_get(ret.val, el)
          IN  /\ {"s", "p"} \subseteq od_keys(orbitals)
              /\ NullWeight(el, "s")
              /\ HasWeight(el, "p")
              /\ od_keys(out) = {"energy", "p"}

\* C9: an orbital with no key in its element's table does not make the call
\* fail: it is left out with a warning, and every element is returned with
\* every orbital that has a weight, weighted.
C9_MissingOrbitalDropped ==
    (WeightsDone /\ AllElementsListed) =>
      /\ ret.kind = "value"
      /\ od_keys(ret.val) = od_keys(arg.pdos_data)
      /\ \A e \in DOMAIN arg.pdos_data :
            LET el == arg.pdos_data[e][1]
                orbitals == arg.pdos_data[e][2]
                out == od_get(ret.val, el)
            IN  \A k \in DOMAIN orbitals :
                  LET key == orbitals[k][1]
                  IN  /\ (key # "energy" /\ key \notin DOMAIN arg.cross_sections.items[el])
                          => /\ key \notin od_keys(out)
                             /\ \E w \in DOMAIN ret.warnings : ret.warnings[w] = <<el, key>>
                      /\ (key # "energy" /\ HasWeight(el, key))
                          => /\ key \in od_keys(out)
                             /\ od_get(out, key)
                                = array_times(orbitals[k][2], arg.cross_sections.items[el][key])

\* one element lacks the key of an orbital while that element and another
\* one have weighted orbitals
C9_Witness ==
    /\ WeightsDone
    /\ ret.kind = "value"
    /\ Len(arg.pdos_data) = 2
    /\ LET el == arg.pdos_data[1][1]
            other == arg.pdos_data[2][1]
        IN  /\ {"s", "p"} \subseteq od_keys(arg.pdos_data[1][2])
            /\ "s" \notin DOMAIN arg.cross_sections.items[el]
            /\ HasWeight(el, "p")
            /\ od_keys(od_get(ret.val, el)) = {"energy", "p"}
            /\ "s" \in od_keys(arg.pdos_data[2][2])
            /\ HasWeight(other, "s")
            /\ "s" \in od_keys(od_get(ret.val, other))

\* C10: when an element of the data has no entry in the table the call
\* fails (KeyError on the element) and returns nothing, also when the
\* element holds only 'energy'.
C10_MissingElementRaises ==
    (/\ WeightsDone
     /\ arg.cross_sections.type = "dict"
     /\ \E e \in DOMAIN arg.pdos_data :
           arg.pdos_data[e][1] \notin DOMAIN arg.cross_sections.items)
    => ret = Raise("KeyError")

\* the second element holds only 'energy' and is missing from the table
C10_Witness ==
    /\ WeightsDone
    /\ ret = Raise("KeyError")
    /\ Len(arg.pdos_data) = 2
    /\ arg.pdos_data[1][1] \in DOMAIN arg.cross_sections.items
    /\ arg.pdos_data[2][1] \notin DOMAIN arg.cross_sections.items
    /\ od_keys(arg.pdos_data[2][2]) = {"energy"}

\* the array the input holds for orbital key of element el
InputOf(el, key) == od_get(od_get(arg.pdos_data, el), key)

\* C11: every orbital in the output of apply_orbital_weights is an orbital of
\* the same element of the input whose weight under that (element, orbital)
\* is not None, and holds the input array times that weight, sample by
\* sample; and every input orbital with such a weight is in the output.
C11_WeightedByOwnCrossSection ==
    (WeightsDone /\ ret.kind = "value") =>
        /\ \A e \in DOMAIN ret.val :
              LET el == ret.val[e][1]
                  out == ret.val[e][2]
              IN  \A k \in DOMAIN out :
                    LET key == out[k][1]
                    IN  key # "energy" =>
                          /\ el \in od_keys(arg.pdos_data)
                          /\ key \in od_keys(od_get(arg.pdos_data, el))
                          /\ HasWeight(el, key)
                          /\ \A i \in DOMAIN out[k][2] :
                                out[k][2][i] =
                                    RMul(InputOf(el, key)[i],
                                         arg.cross_sections.items[el][key])
                          /\ DOMAIN out[k][2] = DOMAIN InputOf(el, key)
        /\ \A e \in DOMAIN arg.pdos_data :
              LET el == arg.pdos_data[e][1]
                  orbitals == arg.pdos_data[e][2]
              IN  \A k \in DOMAIN orbitals :
                    (orbitals[k][1] # "energy" /\ HasWeight(el, orbitals[k][1]))
                    => orbitals[k][1] \in od_keys(od_get(ret.val, el))

\* two elements with s and p, all four weights numbers, s and p of the first
\* element weighted differently and s weighted differently in the two elements
C11_Witness ==
    /\ WeightsDone
    /\ ret.kind = "value"
    /\ Len(arg.pdos_data) = 2
    /\ LET el == arg.pdos_data[1][1]
           other == arg.pdos_data[2][1]
       IN  /\ \A key \in {"s", "p"} :
                 /\ key \in od_keys(arg.pdos_data[1][2])
                 /\ key \in od_keys(arg.pdos_data[2][2])
                 /\ HasWeight(el, key)
                 /\ HasWeight(other, key)
           /\ arg.cross_sections.items[el]["s"] # arg.cross_sections.items[el]["p"]
           /\ arg.cross_sections.items[el]["s"] # arg.cross_sections.items[other]["s"]
           /\ od_keys(od_get(ret.val, el)) = {"energy", "s", "p"}
           /\ od_keys(od_get(ret.val, other)) = {"energy", "s", "p"}

(***************************************************************************)
(* Claims about the order of keys                                          *)
(***************************************************************************)
\* the keys of an OrderedDict, in its order
KeySeq(od) == [i \in DOMAIN od |-> od[i][1]]

PdosReturned == fn = "process_pdos" /\ pc = "done" /\ ret.kind = "value"

\* process_pdos keeps orbital key of element el: it holds data and, when
\* weighting is asked for, a weight that is not None
PdosRetained(el, key, orb_data) ==
    /\ key # "energy"
    /\ orb_data # NoneArray
    /\ arg.weighting # NoneArg =>
          /\ key \in DOMAIN arg.dataset.items[el]
          /\ arg.dataset.items[el][key] # CsNone

\* C12: the output of apply_orbital_weights lists the elements in the order
\* of the input and, in each element, the keys it keeps ('energy' and the
\* orbitals with a weight) in the order of the input; the output of
\* process_pdos lists the elements in the order of the data read and, in
\* each element, 'energy' first and then the orbitals it keeps in the order
\* of the data read.
C12_InsertionOrderKept ==
    /\ (WeightsDone /\ ret.kind = "value") =>
          /\ KeySeq(ret.val) = KeySeq(arg.pdos_data)
          /\ \A e \in DOMAIN arg.pdos_data :
                LET el == arg.pdos_data[e][1]
                    kept(key) == key = "energy" \/ HasWeight(el, key)
                IN  KeySeq(ret.val[e][2])
                    = SelectSeq(KeySeq(arg.pdos_data[e][2]), kept)
    /\ PdosReturned =>
          /\ KeySeq(ret.val) = KeySeq(env.pdos_data)
          /\ \A e \in DOMAIN env.pdos_data :
                LET el == env.pdos_data[e][1]
                    kept(entry) == PdosRetained(el, entry[1], entry[2])
                IN  KeySeq(ret.val[e][2])
                    = <<"energy">> \o KeySeq(SelectSeq(env.pdos_data[e][2], kept))

\* process_pdos has read a file of O and then a file of Na and returns O
\* with energy and s, then Na with energy, s and p
C12_Witness ==
    /\ PdosReturned
    /\ Len(arg.input) = 2
    /\ arg.input[1].element = Some("O")
    /\ arg.input[2].element = Some("Na")
    /\ arg.weighting # NoneArg
    /\ KeySeq(ret.val) = <<"O", "Na">>
    /\ KeySeq(ret.val[1][2]) = <<"energy", "s">>
    /\ KeySeq(ret.val[2][2]) = <<"energy", "s", "p">>

(***************************************************************************)
(* Claims about what process_pdos returns                                  *)
(***************************************************************************)
PdosEnded == fn = "process_pdos" /\ pc = "done" /\ ret.kind # "raise"

ExplicitLimits == arg.xmin # NoneArg /\ arg.xmax # NoneArg

\* the elements named by the input files, when all are text files
FileElements == {arg.input[i].element[1] : i \in DOMAIN arg.input}

AllTxt == \A i \in DOMAIN arg.input : arg.input[i].kind = "txt"

\* every element of the result has an 'energy' entry, and it is the grid
EnergyIs(grid) ==
    \A e \in DOMAIN ret.val :
        /\ "energy" \in od_keys(ret.val[e][2])
        /\ od_get(ret.val[e][2], "energy") = grid

\* C13 as stated: process_pdos returns a mapping with one entry per input
\* element whose 'energy' entry is the grid, and with explicit limits the
\* grid starts at xmin and every value of it is less than xmax.
C13_GridFromXmin ==
    PdosEnded =>
        /\ ret.kind = "value"
        /\ od_keys(ret.val) = od_keys(env.pdos_data)
        /\ EnergyIs(heap[env.x_values])
        /\ ExplicitLimits =>
              /\ heap[env.x_values][1] = arg.xmin[1]
              /\ \A i \in DOMAIN heap[env.x_values] :
                    heap[env.x_values][i] < arg.xmax[1]

\* C13, amended: process_pdos returns a mapping with one entry per element
\* of the data read (per element named by the files, for text files) whose
\* 'energy' entry is the grid np.arange(lo, hi, d); with explicit limits and
\* no flipx the grid starts at xmin and stays below xmax, and with explicit
\* limits and flipx it starts at -xmax and stays below -xmin.
C13_GridFromLimits ==
    PdosEnded =>
        /\ ret.kind = "value"
        /\ od_keys(ret.val) = od_keys(env.pdos_data)
        /\ AllTxt => od_keys(ret.val) = FileElements
        /\ EnergyIs(arange(env.xmin, env.xmax, arg.sampling))
        /\ ExplicitLimits =>
              LET lo == IF arg.flipx THEN -arg.xmax[1] ELSE arg.xmin[1]
                  hi == IF arg.flipx THEN -arg.xmin[1] ELSE arg.xmax[1]
                  energy == od_get(ret.val[1][2], "energy")
              IN  /\ energy[1] = lo
                  /\ \A i \in DOMAIN energy : energy[i] < hi

\* two text files, explicit limits and flipx: the grid starts at -xmax
C13_Witness ==
    /\ PdosEnded
    /\ ret.kind = "value"
    /\ AllTxt
    /\ Len(ret.val) = 2
    /\ ExplicitLimits
    /\ arg.flipx
    /\ od_get(ret.val[2][2], "energy")[1] = -arg.xmax[1]
    /\ Len(od_get(ret.val[2][2], "energy")) = 2

(***************************************************************************)
(* Claims about the errors of the drivers                                  *)
(***************************************************************************)
FlipxRaised == RaiseMsg("Exception", "x-flip not currently implemented in 1D mode.")

\* C14: process_1d_data called with a true flipx raises the x-flip error
\* whatever the other arguments are, also for an input list that is too long
\* and for a file that does not exist; it never gets past its first
\* statement, reads nothing, makes no array and returns no (grid, data) pair.
C14_FlipxFailsFast ==
    (fn = "process_1d_data" /\ arg.flipx = "True") =>
        /\ pc \in {"check", "done"}
        /\ pc = "done" => ret = FlipxRaised
        /\ env = <<>>
        /\ heap = <<>>
        /\ calls = <<>>

\* the call has failed on flipx although the file does not exist and the
\* input list holds two names
C14_Witness ==
    /\ fn = "process_1d_data"
    /\ arg.flipx = "True"
    /\ ~arg.exists
    /\ arg.input = "list2"
    /\ pc = "done"
    /\ ret = FlipxRaised

\* file i of the input is a text file that exists and is named by an element
Readable(i) ==
    /\ arg.input[i].kind = "txt"
    /\ arg.input[i].exists
    /\ arg.input[i].element # NoneArg

EnergyLabel(i) == arg.input[i].data[1][1]

\* file i is the first whose energy label differs from that of the first
\* file, and every file up to it can be read
FirstMismatch(i) ==
    /\ i > 1
    /\ \A j \in 1..i : Readable(j)
    /\ EnergyLabel(i) # EnergyLabel(1)
    /\ \A j \in 2..(i - 1) : EnergyLabel(j) = EnergyLabel(1)

\* C15: when process_pdos is given text files and the energy label of one
\* of them differs from that of the first file read, the call fails with
\* the AssertionError of the label comparison: it never leaves the loop over
\* the files, resamples and broadens nothing and returns no data.
C15_LabelMismatchRaises ==
    (fn = "process_pdos" /\ \E i \in DOMAIN arg.input : FirstMismatch(i)) =>
        /\ pc \in {"input", "file", "done"}
        /\ pc = "done" => ret = Raise("AssertionError")
        /\ heap = <<>>
        /\ calls = <<>>

\* the third of three files has another label and the call has failed after
\* reading the first two
C15_Witness ==
    /\ fn = "process_pdos"
    /\ Len(arg.input) = 3
    /\ FirstMismatch(3)
    /\ pc = "done"
    /\ ret = Raise("AssertionError")
    /\ Len(env.pdos_data) = 2

(***************************************************************************)
(* Claims about the limits of the grid                                     *)
(***************************************************************************)
\* process_1d_data has worked out its limits
LimitsSet1D == fn = "process_1d_data" /\ "xmin" \in DOMAIN env

\* the least and the greatest x of the data read by process_1d_data
DataMin == CHOOSE m \in {arg.file[i][1] : i \in DOMAIN arg.file} :
               \A i \in DOMAIN arg.file : m <= arg.file[i][1]
DataMax == CHOOSE m \in {arg.file[i][1] : i \in DOMAIN arg.file} :
               \A i \in DOMAIN arg.file : m >= arg.file[i][1]

\* C16: in process_1d_data a limit that is not given is the data minimum
\* minus 5% of the data range (xmin) or the data maximum plus 5% of the data
\* range (xmax), a limit that is given is used as it is, each side on its
\* own, and the grid is np.arange(xmin, xmax, sampling) of these limits.
C16_AutoLimitsPerSide ==
    LimitsSet1D =>
        /\ arg.xmin = NoneArg =>
              PaddingInv * env.xmin = PaddingInv * DataMin - (DataMax - DataMin)
        /\ arg.xmin # NoneArg => env.xmin = arg.xmin[1]
        /\ arg.xmax = NoneArg =>
              PaddingInv * env.xmax = PaddingInv * DataMax + (DataMax - DataMin)
        /\ arg.xmax # NoneArg => env.xmax = arg.xmax[1]
        /\ "x_values" \in DOMAIN env =>
              /\ \A i \in DOMAIN heap[env.x_values] :
                    /\ heap[env.x_values][i] = env.xmin + (i - 1) * arg.sampling
                    /\ heap[env.x_values][i] < env.xmax
              /\ env.xmin + Len(heap[env.x_values]) * arg.sampling >= env.xmax

\* xmin is given and xmax is not: the grid starts at the given xmin and the
\* upper limit is the automatic one, on data whose least x is not that xmin
C16_Witness ==
    /\ LimitsSet1D
    /\ pc = "done"
    /\ ret.kind = "value"
    /\ arg.xmin # NoneArg
    /\ arg.xmax = NoneArg
    /\ DataMin = 20
    /\ DataMax = 40
    /\ arg.xmin[1] = 0
    /\ env.xmin = 0
    /\ env.xmax = 41
    /\ heap[env.x_values][1] = 0

\* PaddingInv times the padded minimum and maximum of the energies of
\* element e of the data read
PaddedMin(e) ==
    LET energy == od_get(env.pdos_data[e][2], "energy")
    IN  PaddingInv * SeqMin(energy) - (SeqMax(energy) - SeqMin(energy))

PaddedMax(e) ==
    LET energy == od_get(env.pdos_data[e][2], "energy")
    IN  PaddingInv * SeqMax(energy) + (SeqMax(energy) - SeqMin(energy))

\* C17: process_pdos puts every orbital of every element on one grid, which
\* is the 'energy' entry of every element of the result; when xmin is not
\* given the grid starts at the least of the padded minima of the elements,
\* and when xmax is not given it ends below the greatest of their padded
\* maxima, less than a step away from it.
C17_CommonGrid ==
    PdosReturned =>
        LET grid == heap[env.x_values]
        IN  /\ \A e \in DOMAIN ret.val :
                  /\ od_get(ret.object[e][2], "energy") = env.x_values
                  /\ \A k \in DOMAIN ret.val[e][2] :
                        Len(ret.val[e][2][k][2]) = Len(grid)
            /\ arg.xmin = NoneArg =>
                  /\ \E e \in DOMAIN env.pdos_data :
                        PaddingInv * grid[1] = PaddedMin(e)
                  /\ \A e \in DOMAIN env.pdos_data :
                        PaddingInv * grid[1] <= PaddedMin(e)
            /\ arg.xmax = NoneArg =>
                  /\ \E e \in DOMAIN env.pdos_data :
                        /\ PaddingInv * grid[Len(grid)] < PaddedMax(e)
                        /\ PaddingInv * (grid[Len(grid)] + arg.sampling)
                           >= PaddedMax(e)
                  /\ \A e \in DOMAIN env.pdos_data :
                        PaddingInv * (grid[Len(grid)] + arg.sampling)
                        >= PaddedMax(e)

(***************************************************************************)
(* Claims about the distribution names of broaden                          *)
(***************************************************************************)
\* the names drawn that are one of the four names in some letter case
FourNames == {"lorentz", "lorentzian", "Lorentzian", "gauss", "gaussian", "GAUSS"}

\* C18: broaden raises its 'distribution not known' Exception for every name
\* other than lorentz, lorentzian, gauss and gaussian in any letter case,
\* also on data and widths for which the convolution would fail, and for
\* none of the four names.
C18_UnknownDistRaises ==
    BroadenDone =>
        /\ arg.dist \notin FourNames => ret = Raise("Exception")
        /\ arg.dist \in FourNames => ret # Raise("Exception")

\* an unknown name on empty data with width 0: np.convolve would raise
\* ValueError, the call has raised the Exception of the name
C18_Witness ==
    /\ BroadenDone
    /\ arg.dist = "voigt"
    /\ arg.data = <<>>
    /\ arg.width = 0
    /\ ret = Raise("Exception")

(***************************************************************************)
(* Claims about the line shapes                                            *)
(***************************************************************************)
ShapeDone == fn \in {"lorentzian", "gaussian"} /\ pc = "done"

\* the value of the line shape at its centre: 2 / (pi * fwhm) for the
\* Lorentzian (kept without the factor 1 / pi), 1 for the Gaussian
PeakValue ==
    IF fn = "lorentzian" THEN Rat(2, 2 * arg.half) ELSE RInt(1)

\* C19: for both line shapes and every fwhm, the value at the centre f0 is
\* the peak value, the values at f0 - fwhm/2 and f0 + fwhm/2 are half the
\* peak value, and the values further out are less than half the peak value.
C19_WidthIsFwhm ==
    ShapeDone =>
        /\ arg.k = 0 => ret.val = PeakValue
        /\ arg.k \in {-1, 1} => RMul(RInt(2), ret.val) = PeakValue
        /\ arg.k \notin {-1, 0, 1} => RLess(RMul(RInt(2), ret.val), PeakValue)

\* the Gaussian of fwhm 4 centred on -1 evaluated at 1 is 1/2
C19_Witness ==
    /\ ShapeDone
    /\ fn = "gaussian"
    /\ arg.f0 = -1
    /\ arg.half = 2
    /\ arg.k = 1
    /\ ret.val = Rat(1, 2)

(***************************************************************************)
(* C20: get_cross_sections routes on its weighting argument alone: a       *)
(* number or a string that spells one goes to the Scofield fit with the    *)
(* float energy and the elements passed through; 'alka', 'he2' and         *)
(* 'yeh_haxpes' in any letter case go to the Yeh tables; the retired keys  *)
(* 'xps', 'ups' and 'haxpes' raise ValueError; every other string is taken *)
(* as a JSON path, without the elements; and exactly one route is taken    *)
(* for every input                                                         *)
(***************************************************************************)
RouteDone == fn = "get_cross_sections" /\ pc = "done"

Numeric(weighting) ==
    weighting.type \in {"float", "int"}
        \/ (weighting.type = "str"
                /\ weighting.s \in {"0", "1", "42", "1.4e2", "1500", "2000"})

EnergyOf(weighting) ==
    IF weighting.type = "str"
    THEN CASE weighting.s = "0" -> 0
           [] weighting.s = "1" -> 1
           [] weighting.s = "42" -> 42
           [] weighting.s = "1.4e2" -> 140
           [] weighting.s = "1500" -> 1500
           [] OTHER -> 2000
    ELSE weighting.v

YehNames ==
    {"alka", "Alka", "ALKA", "he2", "He2", "yeh_haxpes", "YEH_HAXPES"}

RetiredNames == {"xps", "XPS", "ups", "UPS", "haxpes", "Haxpes"}

C20_OneRoute ==
    (RouteDone /\ arg.weighting.type \in {"float", "int", "str"}) =>
        IF Numeric(arg.weighting)
        THEN calls = <<[fn |-> "get_cross_sections_scofield",
                        energy |-> EnergyOf(arg.weighting),
                        elements |-> arg.elements]>>
        ELSE IF arg.weighting.s \in YehNames
        THEN calls = <<[fn |-> "get_cross_sections_yeh",
                        source |-> arg.weighting.s]>>
        ELSE IF arg.weighting.s \in RetiredNames
        THEN calls = <<>> /\ ret.kind = "raise" /\ ret.exc = "ValueError"
        ELSE calls = <<[fn |-> "get_cross_sections_json",
                        path |-> arg.weighting.s]>>

(***************************************************************************)
(* C21: get_cross_sections_scofield refuses to extrapolate: an energy      *)
(* below 1 or above 1500, or an array with any such member, ends in        *)
(* ValueError, with the database never opened and no table returned        *)
(***************************************************************************)
OutOfRange(energy) ==
    IF energy.type = "array"
    THEN \E i \in DOMAIN energy.a :
             energy.a[i] < 1 \/ energy.a[i] > 1500
    ELSE energy.v < 1 \/ energy.v > 1500

C21_NoExtrapolation ==
    (fn = "get_cross_sections_scofield" /\ OutOfRange(arg.energy)) =>
        /\ calls = <<>>
        /\ pc # "db"
        /\ pc = "done" => (ret.kind = "raise" /\ ret.exc = "ValueError")

C21_Witness ==
    /\ fn = "get_cross_sections_scofield"
    /\ pc = "done"
    /\ arg.energy = [type |-> "array", a |-> <<1, 2000>>]
    /\ ret.kind = "raise"
    /\ calls = <<>>

(***************************************************************************)
(* C22: resampling an empty xy series fails with an invalid-input error    *)
(* (ValueError) in both modes, interpolation and spikes; no array of       *)
(* zeros is returned for empty input                                       *)
(***************************************************************************)
C22_EmptyFails ==
    (ResampleDone /\ arg.xy = <<>> /\ Len(arg.x_values) >= 2) =>
        (ret.kind = "raise" /\ ret.exc = "ValueError")

(***************************************************************************)
(* C23: the result of resampling does not depend on the order of the       *)
(* points in xy: every permutation of the same points gives the same       *)
(* values, in interpolate mode (points of distinct x) and in spike mode    *)
(***************************************************************************)
Orderings(n) ==
    {p \in [1..n -> 1..n] : \A i, j \in 1..n : i # j => p[i] # p[j]}

Permuted(xy, p) == [i \in DOMAIN xy |-> xy[p[i]]]

FallOn(i) == {k \in DOMAIN arg.xy : Kept(k) /\ PointIndex(k) + 1 = i}

C24_SpikesAccumulate ==
    SpikesDone =>
        \A i \in DOMAIN ret.val :
            Cardinality(FallOn(i)) >= 2 =>
                /\ ret.val[i] = SumY(arg.xy, FallOn(i), 1)
                /\ \A k \in FallOn(i) :
                      arg.xy[k][2] # RZero => ret.val[i] # RZero

\* two points with intensity in one cell, which holds more than the later one
C24_Witness ==
    /\ SpikesDone
    /\ \E i \in DOMAIN ret.val :
          /\ FallOn(i) = {1, 2}
          /\ arg.xy[1][2] # RZero
          /\ arg.xy[2][2] # RZero
          /\ arg.xy[1][1] # arg.xy[2][1]
          /\ ret.val[i] = RAdd(arg.xy[1][2], arg.xy[2][2])
          /\ ret.val[i] # arg.xy[2][2]

(***************************************************************************)
(* C30: spike resampling conserves intensity: the returned array adds up   *)
(* to the y-values of exactly the input points that were not dropped, for  *)
(* every input series and mesh                                             *)
(***************************************************************************)
C30_SpikesConserve ==
    SpikesDone =>
        SeqSum(ret.val, 1) = SumY(arg.xy, {k \in DOMAIN arg.xy : Kept(k)}, 1)

\* a dropped and a kept point, both with intensity
C30_Witness ==
    /\ SpikesDone
    /\ \E j, k \in DOMAIN arg.xy :
          /\ Kept(k)
          /\ ~Kept(j)
          /\ arg.xy[j][2] # RZero
          /\ arg.xy[k][2] # RZero
          /\ SeqSum(ret.val, 1) = arg.xy[k][2]

(***************************************************************************)
(* C27: resampling accepts every mesh of one or more points: on a mesh of  *)
(* exactly one point xy_to_1d returns an array of length 1 and does not    *)
(* fail                                                                    *)
(***************************************************************************)
C27_OnePointGrid ==
    (ResampleDone /\ Len(arg.x_values) = 1) =>
        (ret.kind = "value" /\ Len(ret.val) = 1)

(***************************************************************************)
(* C25: in process_pdos the stages run in the order resample, broaden,     *)
(* weight: every orbital of every element has been resampled and           *)
(* broadened before any cross-section weight is applied, weighting is      *)
(* applied at most once, and only when a weighting source is given         *)
(***************************************************************************)
IsWeigh(i) == calls[i].fn = "apply_orbital_weights"

\* the orbitals of the input that hold data
DataSeries ==
    UNION {{<<env.pdos_data[e][1], env.pdos_data[e][2][o][1]>> :
               o \in {k \in DOMAIN env.pdos_data[e][2] :
                         /\ env.pdos_data[e][2][k][1] # "energy"
                         /\ env.pdos_data[e][2][k][2] # NoneArray}} :
           e \in DOMAIN env.pdos_data}

StageBefore(i, series, stage) ==
    \E j \in 1..(i - 1) : calls[j].fn = stage /\ calls[j].series = series

BroadenBefore(i, series, dist) ==
    \E j \in 1..(i - 1) : IsBroaden(j, dist) /\ calls[j].series = series

InOrbitalLoop ==
    pc \in {"input", "file", "limits", "element", "orbital", "resample",
            "copy", "lorentzian", "gaussian", "store"}

C25_ResampleBroadenWeight ==
    fn = "process_pdos" =>
        /\ Cardinality({i \in DOMAIN calls : IsWeigh(i)}) <= 1
        /\ InOrbitalLoop => \A i \in DOMAIN calls : ~IsWeigh(i)
        /\ \A i \in DOMAIN calls :
              IsWeigh(i) =>
                  /\ i = Len(calls)
                  /\ arg.weighting # NoneArg
                  /\ \A series \in DataSeries :
                        /\ StageBefore(i, series, "xy_to_1d")
                        /\ Truthy(arg.lorentzian)
                              => BroadenBefore(i, series, "lorentzian")
                        /\ Truthy(arg.gaussian)
                              => BroadenBefore(i, series, "gaussian")
        /\ \A i \in DOMAIN calls :
              calls[i].fn = "broaden" =>
                  StageBefore(i, calls[i].series, "xy_to_1d")

\* two elements, both widths and a weighting: the weights come last
C25_Witness ==
    /\ PdosReturned
    /\ arg.weighting # NoneArg
    /\ Truthy(arg.lorentzian)
    /\ Truthy(arg.gaussian)
    /\ Len(env.pdos_data) = 2
    /\ Cardinality(DataSeries) >= 3
    /\ IsWeigh(Len(calls))
    /\ Len(calls) = 3 * Cardinality(DataSeries) + 1

(***************************************************************************)
(* C26: no pipeline stage changes what it is given: when xy_to_1d, broaden *)
(* or apply_orbital_weights returns, the xy series, the data array and the *)
(* pdos_data mapping with every array in it hold the values they held      *)
(* before the call, and each stage returns a fresh array                   *)
(***************************************************************************)
\* a stage has just returned
StageReturns == Len(calls') = Len(calls) + 1

\* no array that exists changes, and a stage leaves the series that were read
\* as they are
InputsKept ==
    /\ \A a \in DOMAIN heap : a \in DOMAIN heap' /\ heap'[a] = heap[a]
    /\ (StageReturns /\ fn = "process_1d_data") => env'.xy_data = env.xy_data
    /\ (StageReturns /\ fn = "process_pdos") => env'.pdos_data = env.pdos_data

Fresh(address) == address \notin DOMAIN heap /\ address \in DOMAIN heap'

\* the arrays of a mapping of addresses, all of them or all but 'energy'
ArraysOf(plotting, with_energy) ==
    UNION {{plotting[e][2][o][2] :
               o \in {k \in DOMAIN plotting[e][2] :
                         with_energy \/ plotting[e][2][k][1] # "energy"}} :
           e \in DOMAIN plotting}

EnergyArray(plotting, el) == od_get(od_get(plotting, el), "energy")

\* as stated: every array a stage returns is a new object
C26_AllFresh ==
    [][/\ InputsKept
       /\ StageReturns =>
             LET c == calls'[Len(calls')]
             IN  IF c.fn = "apply_orbital_weights"
                 THEN \A a \in ArraysOf(c.out, TRUE) : Fresh(a)
                 ELSE Fresh(c.out)]_vars

\* what holds: every array a stage returns is a new object, except that
\* apply_orbital_weights hands on the 'energy' array of each element as the
\* object it was given
C26_FreshButEnergy ==
    [][/\ InputsKept
       /\ StageReturns =>
             LET c == calls'[Len(calls')]
             IN  IF c.fn = "apply_orbital_weights"
                 THEN /\ \A a \in ArraysOf(c.out, FALSE) : Fresh(a)
                      /\ \A el \in od_keys(c.out) :
                            EnergyArray(c.out, el) = EnergyArray(c.data, el)
                 ELSE Fresh(c.out)]_vars

\* weights applied after both broadenings: new arrays for the orbitals, the
\* energy array handed on
C26_Witness ==
    /\ PdosReturned
    /\ Truthy(arg.lorentzian)
    /\ Truthy(arg.gaussian)
    /\ IsWeigh(Len(calls))
    /\ LET c == calls[Len(calls)]
       IN  /\ ArraysOf(c.out, FALSE) # {}
           /\ ArraysOf(c.out, FALSE) \cap ArraysOf(c.data, TRUE) = {}
           /\ \A a \in ArraysOf(c.data, TRUE) : heap[a] # <<>>
           /\ \A el \in od_keys(c.out) :
                 EnergyArray(c.out, el) = EnergyArray(c.data, el)

(***************************************************************************)
(* C28: when flipx is set and neither xmin nor xmax is given, the grid of  *)
(* process_pdos still covers the input data: every energy of every input   *)
(* series lies between the first grid value and the last grid value plus   *)
(* one step, as it does without flipx                                      *)
(***************************************************************************)
GridCovers ==
    LET grid == heap[env.x_values]
    IN  \A e \in DOMAIN env.pdos_data :
            LET energy == od_get(env.pdos_data[e][2], "energy")
            IN  \A i \in DOMAIN energy :
                    /\ grid[1] <= energy[i]
                    /\ energy[i] <= grid[Len(grid)] + arg.sampling

C28_FlipxGridCovers ==
    (PdosReturned /\ arg.flipx /\ arg.xmin = NoneArg /\ arg.xmax = NoneArg)
        => GridCovers

(***************************************************************************)
(* C29: both drivers treat a width of 0 (or False, which is 0) like None:  *)
(* no kernel is built, nothing is convolved and no error is raised, so     *)
(* the data returned are the resampled data; broaden is never called with  *)
(* a width of 0                                                            *)
(***************************************************************************)
Falsy(a) == a = NoneArg \/ a = Some(0)

\* no width that counts, and at least one given as 0
ZeroWidths ==
    /\ fn \in Drivers
    /\ Falsy(arg.lorentzian)
    /\ Falsy(arg.gaussian)
    /\ Some(0) \in {arg.lorentzian, arg.gaussian}

\* the run has come to the broadening stage of some series
StageEntered == "broadened_data" \in DOMAIN env

C29_ZeroWidthIsNone ==
    /\ fn \in Drivers =>
          \A i \in DOMAIN calls :
              calls[i].fn = "broaden" =>
                  /\ calls[i].width # 0
                  /\ ~Falsy(IF calls[i].dist = "lorentzian"
                            THEN arg.lorentzian ELSE arg.gaussian)
    /\ ZeroWidths =>
          /\ \A i \in DOMAIN calls : calls[i].fn # "broaden"
          /\ StageLeft => heap[env.broadened_data] = heap[Resampled]
          /\ (fn = "process_1d_data" /\ StageEntered /\ pc = "done")
                => /\ ret.kind = "value"
                   /\ ret.val[2] = heap[env.data_1d]
          /\ (fn = "process_pdos" /\ StageEntered /\ pc = "done"
                /\ arg.weighting = NoneArg)
                => ret.kind = "value"

\* process_1d_data returns resampled data that are not all 0, with one width
\* given as 0 and the other as None
C29_Witness ==
    /\ fn = "process_1d_data"
    /\ pc = "done"
    /\ arg.lorentzian = Some(0)
    /\ arg.gaussian = NoneArg
    /\ ret.kind = "value"
    /\ ret.val[2] = heap[env.data_1d]
    /\ \E i \in DOMAIN heap[env.data_1d] : heap[env.data_1d][i] # RZero

====
